---- MODULE Spec2Model ----
(***************************************************************************)
(* A model of prompty's rendering engine: ChatPromptTemplate.FormatStruct  *)
(* (payload extraction through the process-wide payloadCache, the merge of *)
(* default and payload variables, required-variable validation, the render *)
(* loop with its cancellation check and optional-message elision, and the  *)
(* history splice), run by one or several concurrent callers.              *)
(*                                                                         *)
(* Go values are modelled by what the code can observe of them:            *)
(*   - a value of type `any` is a record [k, s, h, ref]: its reflect kind, *)
(*     its string payload, its []ChatMessage payload, and the address of   *)
(*     the object it refers to;                                            *)
(*   - slices and maps are objects of a heap, named by addresses, so that  *)
(*     the difference between a shallow clone and a shared reference is    *)
(*     visible;                                                            *)
(*   - a template body is the list of the field nodes its parse tree holds *)
(*     (first identifiers, in walk order) plus a literal.                  *)
(***************************************************************************)
EXTENDS Integers, Sequences, FiniteSets, TLC

\* ------------------------------------------------------------------ bounds
\* Longest message list of a template.
MaxMsgs == 2
\* Concurrent callers of FormatStruct.
NumProcs == 2
\* Deepest pointer chain in front of a payload struct.
MaxDepth == 2
\* Longest text handed to truncate_chars and truncate_tokens, in code points.
MaxTextLen == 3
\* Last reading of the registry's clock.
MaxClock == 1
\* Calls of the registry's Fetcher.
MaxFetches == 2
\* Evictions of the registry's cache.
MaxEvicts == 1

Procs == 1..NumProcs

\* ------------------------------------------------------------------ helpers
SeqsUpTo(S, n) == UNION {[1..k -> S] : k \in 0..n}

Range(s) == {s[j] : j \in DOMAIN s}
Min(a, b) == IF a <= b THEN a ELSE b

\* ------------------------------------------------------------------ roles
RoleSystem == "system"
RoleDeveloper == "developer"
RoleUser == "user"
RoleAssistant == "assistant"

\* ------------------------------------------------------------------ errors
NoErr == [kind |-> "nil", variable |-> "", template |-> ""]
ErrInvalidPayload == [kind |-> "ErrInvalidPayload", variable |-> "", template |-> ""]
ErrReservedVariable == [kind |-> "ErrReservedVariable", variable |-> "", template |-> ""]
ErrTemplateRender == [kind |-> "ErrTemplateRender", variable |-> "", template |-> ""]
\* context.Canceled, the value ctx.Err() returns once the context is cancelled.
ErrCanceled == [kind |-> "context.Canceled", variable |-> "", template |-> ""]
\* &VariableError{Variable: name, Template: id, Err: ErrMissingVariable}
VariableError(name, id) == [kind |-> "ErrMissingVariable", variable |-> name, template |-> id]

\* ------------------------------------------------------------------ heap
\* An address is <<owner, name, index>>: owner 0 is the template, owner p a
\* caller's allocations during its current FormatStruct call.
NoAddr == <<0, "nil", 0>>
\* An object (a slice or a map): its scalar slots and its reference slots.
EmptyObj == [elems |-> <<>>, refs |-> <<>>]

\* ------------------------------------------------------------------ values
NoHist == <<>>
NilV == [k |-> "nil", s |-> "", h |-> NoHist, ref |-> NoAddr]
Str(x) == [k |-> "string", s |-> x, h |-> NoHist, ref |-> NoAddr]
\* A function value; s tells a nil func from a non-nil one.
FuncV(x) == [k |-> "func", s |-> x, h |-> NoHist, ref |-> NoAddr]
\* A []ChatMessage value.
HistV(h) == [k |-> "slice", s |-> "", h |-> h, ref |-> NoAddr]
\* A []ToolDefinition value: a slice header onto the object at addr.
ToolsV(addr) == [k |-> "slice", s |-> "tools", h |-> NoHist, ref |-> addr]

\* reflect.Value.IsZero for the kinds above.
IsZero(v) ==
    CASE v.k = "string" -> v.s = ""
      [] v.k = "func" -> v.s = "nil"
      [] v.k = "slice" -> v.ref = NoAddr /\ v.h = NoHist
      [] OTHER -> TRUE

\* A message that leaves the metadata behind.
ChatMessage_NoMeta(role, content, meta) ==
    [Role |-> role, Content |-> content, Metadata |-> NoAddr]

\* A ChatMessage: Content is its list of parts, a text part being the list of
\* the strings written to it; Metadata is the address of its map (NoAddr: nil).
ChatMessage(role, content, meta) == [Role |-> role, Content |-> content, Metadata |-> meta]

\* ------------------------------------------------------------------ payloads
\* A struct field as reflect shows it: its prompt tag, whether its static type
\* is []ChatMessage, "string" or "any", and whether it is exported.
Field(tag, ftype, exported) == [tag |-> tag, ftype |-> ftype, exported |-> exported]

\* The payload struct types of the callers.
TypeNames == {"PAB", "PHist", "PTools", "PToolsPriv", "PToolsHist", "PNoTags", "PHist2"}

TypeFields(t) ==
    CASE t = "PAB" -> <<Field("a", "string", TRUE), Field("b", "any", TRUE)>>
      [] t = "PHist" -> <<Field("history", "history", TRUE)>>
      [] t = "PTools" -> <<Field("Tools", "string", TRUE), Field("a", "string", TRUE)>>
      [] t = "PToolsPriv" -> <<Field("a", "string", TRUE), Field("Tools", "string", FALSE)>>
      [] t = "PToolsHist" -> <<Field("Tools", "history", TRUE)>>
      [] t = "PHist2" -> <<Field("history", "history", TRUE), Field("older", "history", TRUE)>>
      [] t = "PNoTags" -> <<Field("", "string", TRUE), Field("-", "string", TRUE)>>

\* History messages a caller passes in.
HistMsg(role, text) == ChatMessage(role, <<<<text>>>>, NoAddr)
Histories ==
    { <<>>,
      <<HistMsg(RoleUser, "h1"), HistMsg(RoleAssistant, "h2")>>,
      <<HistMsg(RoleSystem, "h0"), HistMsg(RoleUser, "h1")>> }

\* The values a field of a static type can hold.
FieldValues(ftype) ==
    CASE ftype = "string" -> {Str(""), Str("x")}
      [] ftype = "any" -> {NilV, Str("y"), FuncV("nil")}
      [] ftype = "history" -> {HistV(h) : h \in Histories}

StructValues(t) ==
    LET fs == TypeFields(t)
    IN {vals \in [DOMAIN fs -> UNION {FieldValues(ft) : ft \in {"string", "any", "history"}}] :
            \A j \in DOMAIN fs : vals[j] \in FieldValues(fs[j].ftype)}

\* A payload (an `any`): nil, a non-struct value, or a struct of type typ behind
\* depth pointers of which the one at level nilAt (0: none) is nil.
Payload(base, typ, depth, nilAt, vals) ==
    [base |-> base, typ |-> typ, depth |-> depth, nilAt |-> nilAt, vals |-> vals]
NilPayload == Payload("nil", "", 0, 0, <<>>)
IntPayload(depth) == Payload("int", "int", depth, 0, <<>>)
NilPointer(t, depth, nilAt) == Payload("struct", t, depth, nilAt, <<>>)
StructPayload(t, depth, vals) == Payload("struct", t, depth, 0, vals)

payloadField(index, tag, isHistory) == [index |-> index, tag |-> tag, isHistory |-> isHistory]

\* An extraction that follows one pointer at most.
payloadUnusable_OneLevel(payload) ==
    \/ payload.base = "nil"
    \/ payload.base # "struct"
    \/ payload.nilAt # 0
    \/ payload.depth > 1

\* getPayloadFields, lines 92-108: the payload is nil, does not resolve to a
\* struct type, or holds a nil pointer on the way to the struct.
payloadUnusable(payload) ==
    \/ payload.base = "nil"
    \/ payload.base # "struct"
    \/ payload.nilAt # 0

\* A schema loop that takes the tag "-" for a name.
schemaLoopStep_KeepDash(fields, t, i) ==
    LET f == TypeFields(t)[i]
    IN IF f.tag = ""
       THEN fields
       ELSE Append(fields, payloadField(i, f.tag, f.ftype = "history"))

\* One iteration of the schema loop (lines 114-125) for field i of type t.
schemaLoopStep(fields, t, i) ==
    LET f == TypeFields(t)[i]
    IN IF f.tag = "" \/ f.tag = "-"
       THEN fields
       ELSE IF f.ftype = "history"
            THEN Append(fields, payloadField(i, f.tag, TRUE))
            ELSE Append(fields, payloadField(i, f.tag, FALSE))

\* The whole schema loop: the field list of a finished schema of type t.
RECURSIVE schemaLoop(_, _, _)
schemaLoop(fields, t, i) ==
    IF i > Len(TypeFields(t)) THEN fields
    ELSE schemaLoop(schemaLoopStep(fields, t, i), t, i + 1)

schemaFieldsOf(t) == schemaLoop(<<>>, t, 1)

\* v.Field(i).CanInterface(): false for an unexported field.
CanInterface(t, i) == TypeFields(t)[i].exported

\* Lines 131-145: read the fields the schema lists into vars and history.
\* acc is [vars, history]; vars is a function from the tags set so far.
RECURSIVE extractLoop(_, _, _, _)
extractLoop(acc, fields, t, vals) ==
    IF fields = <<>> THEN acc
    ELSE LET fi == Head(fields)
             val == vals[fi.index]
             next ==
                 IF fi.isHistory
                 THEN IF CanInterface(t, fi.index)
                      THEN [acc EXCEPT !.history = val.h]
                      ELSE acc
                 ELSE IF CanInterface(t, fi.index)
                      THEN [acc EXCEPT !.vars = (fi.tag :> val) @@ acc.vars]
                      ELSE acc
         IN extractLoop(next, Tail(fields), t, vals)

EmptyMap == [x \in {} |-> NilV]

\* Lines 131-149 with the schema's field list: (vars, history, err).
extractFields(fields, payload) ==
    LET acc == extractLoop([vars |-> EmptyMap, history |-> NoHist], fields,
                           payload.typ, payload.vals)
    IN IF "Tools" \in DOMAIN acc.vars
       THEN [vars |-> EmptyMap, history |-> NoHist, err |-> ErrReservedVariable]
       ELSE [vars |-> acc.vars, history |-> acc.history, err |-> NoErr]
\* ------------------------------------------------------------------ templates
\* A message body as parsed: the literal text, and the first identifiers of the
\* field nodes walkParseNodes visits, in visiting order.
Body(lit, refs) == [lit |-> lit, refs |-> refs]

MessageTemplate(role, body, optional, hasMeta) ==
    [Role |-> role, Content |-> body, Optional |-> optional, HasMetadata |-> hasMeta]

\* The message templates the modelled manifests are made of.
MessageSet ==
    { MessageTemplate(RoleSystem, Body("sys", <<>>), FALSE, TRUE),
      MessageTemplate(RoleUser, Body("ask", <<"a">>), FALSE, FALSE),
      MessageTemplate(RoleUser, Body("opt", <<"a", "b">>), TRUE, FALSE),
      MessageTemplate(RoleSystem, Body("ctx", <<"b">>), TRUE, FALSE),
      MessageTemplate(RoleDeveloper, Body("tools", <<"Tools">>), FALSE, FALSE),
      MessageTemplate(RoleAssistant, Body("bare", <<"Tools">>), TRUE, FALSE) }

RECURSIVE extractRequiredVarsFromParsed_All(_)
\* out with the names of names appended that are neither Tools (when skipTools)
\* nor already in out: the seen-map loops of extractVarsFromTree,
\* extractRequiredVarsFromParsed and mergeRequiredVars.
RECURSIVE appendUnseen(_, _, _)
appendUnseen(out, names, skipTools) ==
    IF names = <<>> THEN out
    ELSE LET name == Head(names)
         IN IF (skipTools /\ name = "Tools") \/ name \in Range(out)
            THEN appendUnseen(out, Tail(names), skipTools)
            ELSE appendUnseen(Append(out, name), Tail(names), skipTools)

\* An extraction that records Tools like any other name.
extractVarsFromTree_KeepTools(body) == appendUnseen(<<>>, body.refs, FALSE)

extractVarsFromTree(body) == appendUnseen(<<>>, body.refs, TRUE)

parsedMessage(m, i) ==
    [tpl |-> m.Content, role |-> m.Role, optional |-> m.Optional,
     metadata |-> IF m.HasMetadata THEN <<0, "meta", i>> ELSE NoAddr,
     vars |-> extractVarsFromTree(m.Content)]

RECURSIVE extractRequiredLoop(_, _)
extractRequiredLoop(out, parsed) ==
    IF parsed = <<>> THEN out
    ELSE LET pm == Head(parsed)
         IN IF pm.optional
            THEN extractRequiredLoop(out, Tail(parsed))
            ELSE extractRequiredLoop(appendUnseen(out, extractVarsFromTree(pm.tpl), FALSE),
                                     Tail(parsed))

\* The names of every message, optional or not.
extractRequiredVarsFromParsed_All(parsed) ==
    IF parsed = <<>> THEN <<>>
    ELSE appendUnseen(extractRequiredVarsFromParsed_All(Tail(parsed)),
                      extractVarsFromTree(Head(parsed).tpl), FALSE)

extractRequiredVarsFromParsed(parsed) == extractRequiredLoop(<<>>, parsed)

\* The template-derived names put first.
mergeRequiredVars_DerivedFirst(explicit, fromTemplates) ==
    appendUnseen(appendUnseen(<<>>, fromTemplates, FALSE), explicit, FALSE)

mergeRequiredVars(explicit, fromTemplates) ==
    appendUnseen(appendUnseen(<<>>, explicit, FALSE), fromTemplates, FALSE)

\* The template's own objects.
TplTools == <<0, "tools", 0>>
TplParams == <<0, "params", 0>>
TplConfig == <<0, "cfg", 0>>
TplStop == <<0, "stop", 0>>
TplTags == <<0, "tags", 0>>
TplSchema == <<0, "schema", 0>>
TplProps == <<0, "props", 0>>

NewChatPromptTemplate(messages, partial, required) ==
    LET parsed == [i \in DOMAIN messages |-> parsedMessage(messages[i], i)]
    IN [PartialVariables |-> partial,
        Tools |-> TplTools,
        ModelConfig |-> TplConfig,
        Metadata |-> [ID |-> "tmpl", Tags |-> TplTags],
        ResponseFormat |-> [Name |-> "out", Schema |-> TplSchema],
        RequiredVars |-> required,
        requiredFromAST |-> extractRequiredVarsFromParsed(parsed),
        parsedTemplates |-> parsed]

\* ------------------------------------------------------------------ rendering
\* Elision as soon as one variable is absent or zero.
allVarsZeroForMessage_Any(merged, vars) ==
    \E j \in DOMAIN vars :
        \/ vars[j] \notin DOMAIN merged
        \/ merged[vars[j]] = NilV
        \/ IsZero(merged[vars[j]])

allVarsZeroForMessage(merged, vars) ==
    \A j \in DOMAIN vars :
        LET name == vars[j]
        IN \/ name \notin DOMAIN merged
           \/ merged[name] = NilV
           \/ /\ merged[name].k \notin {"func", "chan", "unsafe.Pointer"}
              /\ IsZero(merged[name])

\* The strings an object holds, its referenced objects' after its own.
RECURSIVE objText(_, _)
objText(h, addr) ==
    IF addr = NoAddr THEN <<>>
    ELSE LET o == h[addr]
             RECURSIVE refsText(_)
             refsText(rs) == IF rs = <<>> THEN <<>>
                             ELSE objText(h, Head(rs)) \o refsText(Tail(rs))
         IN o.elems \o refsText(o.refs)

\* What text/template prints for a value.
Show(v, h) ==
    CASE v.k = "nil" -> <<"<no value>">>
      [] v.k = "string" -> <<v.s>>
      [] OTHER -> objText(h, v.ref)

\* pm.tpl.Execute(&buf, merged) under missingkey=error: a field node whose name
\* merged lacks, or whose value cannot be printed (a func), fails the execution.
RECURSIVE executeRefs(_, _, _, _)
executeRefs(refs, merged, h, buf) ==
    IF refs = <<>> THEN [ok |-> TRUE, text |-> buf]
    ELSE LET name == Head(refs)
         IN IF name \notin DOMAIN merged \/ merged[name].k = "func"
            THEN [ok |-> FALSE, text |-> <<>>]
            ELSE executeRefs(Tail(refs), merged, h, buf \o Show(merged[name], h))

\* An Execute under missingkey=default: a name the map lacks prints as
\* "<no value>".
Execute_MissingKeyDefault(body, merged, h) ==
    executeRefs(body.refs,
                merged @@ [name \in Range(body.refs) |-> NilV], h, <<body.lit>>)

\* An Execute that also writes the variable a of the map when there is one.
Execute_LeakA(body, merged, h) ==
    executeRefs(body.refs \o (IF "a" \in DOMAIN merged THEN <<"a">> ELSE <<>>),
                merged, h, <<body.lit>>)

Execute(body, merged, h) == executeRefs(body.refs, merged, h, <<body.lit>>)

\* The loop of spliceHistory (0-based i, as in the source).
RECURSIVE spliceInsertAt(_, _, _)
spliceInsertAt(rendered, i, insertAt) ==
    IF i >= Len(rendered) THEN insertAt
    ELSE IF rendered[i + 1].Role # RoleSystem /\ rendered[i + 1].Role # RoleDeveloper
         THEN i
         ELSE spliceInsertAt(rendered, i + 1, i + 1)

\* A splice that ignores the leading system/developer run.
spliceHistory_Append(rendered, history) == rendered \o history

spliceHistory(rendered, history) ==
    IF Len(history) = 0 THEN rendered
    ELSE LET insertAt == spliceInsertAt(rendered, 0, 0)
         IN SubSeq(rendered, 1, insertAt) \o history
                \o SubSeq(rendered, insertAt + 1, Len(rendered))

\* A merge in which a default wins over the payload's value.
mergeVariables_DefaultsWin(c, vars) ==
    ("Tools" :> ToolsV(c.Tools)) @@ c.PartialVariables @@ vars

\* Lines 152-157: the map the messages are executed against.
mergeVariables(c, vars) ==
    ("Tools" :> ToolsV(c.Tools)) @@ vars @@ c.PartialVariables

\* Lines 158-163: the index in required of the first name merged lacks, 0 when
\* there is none.
RECURSIVE firstMissing(_, _, _)
firstMissing(required, merged, j) ==
    IF j > Len(required) THEN 0
    ELSE IF required[j] \notin DOMAIN merged THEN j
         ELSE firstMissing(required, merged, j + 1)

\* slices.Clone / maps.Clone of the object at src into the fresh object dst: the
\* address of the copy (NoAddr for a nil source), and the heap holding it. The
\* copy is shallow: the reference slots are copied as they are.
cloneAddr(src, dst) == IF src = NoAddr THEN NoAddr ELSE dst
cloneHeap(h, src, dst) == IF src = NoAddr THEN h ELSE [h EXCEPT ![dst] = h[src]]

\* ------------------------------------------------------------------ state
VARIABLES
    tpl,          \* the ChatPromptTemplate the callers share
    heap,         \* address -> object: the slices and maps of template and results
    payloadCache, \* sync.Map: type -> schema pointer
    schemaObj,    \* schema pointer -> the payloadSchema's fields
    pc,           \* per caller: where its FormatStruct call stands
    payload,      \* per caller: the payload of its call
    ctxDone,      \* per caller: whether its context is cancelled
    cancelAt,     \* per caller: the first message whose check follows the cancellation
    schema,       \* per caller: the local variable schema of getPayloadFields
    fi,           \* per caller: the loop variable i of the schema loop (1-based)
    merged,       \* per caller: the merged variable map
    history,      \* per caller: the history getPayloadFields returned
    idx,          \* per caller: the render loop's index (1-based)
    out,          \* per caller: the messages rendered so far
    ret,          \* per caller: what FormatStruct returned
    fn,           \* the template function a pipeline calls
    text,         \* its argument text
    maxN,         \* its argument maxChars or maxTokens
    tc,           \* the TokenCounter of the template
    tpc,          \* where the function call stands
    lo,           \* truncate_tokens: lo of the binary search
    hi,           \* truncate_tokens: hi of the binary search
    asked,        \* the prefix lengths tc.Count was called with so far
    tret,         \* what the function returned
    execEnd,      \* how the Execute that called the function ended
    messages,     \* NewChatPromptTemplate: its argument messages
    npc,          \* NewChatPromptTemplate: where the call stands
    ni,           \* NewChatPromptTemplate: the parse loop's index (1-based)
    nparsed,      \* NewChatPromptTemplate: tpl.parsedTemplates so far
    nret,         \* NewChatPromptTemplate: what it returned
    smem,         \* backing arrays of the slices a splice works on
    sRendered,    \* spliceHistory: the slice rendered
    sHistory,     \* the slice history of getPayloadFields and spliceHistory
    sInsertAt,    \* spliceHistory: insertAt
    sResult,      \* spliceHistory: the slice it returned
    spc,          \* where the splice stands
    callerHistory, \* the caller's slice and its array as they were handed in
    rttl,         \* Registry.ttl
    rclock,       \* what time.Now() reads
    rcache,       \* Registry.cache
    rsf,          \* Registry.sf: the call in flight for each key
    fetchLog,     \* one entry per call of Fetcher.Fetch: the evictions done by then
    repoch,       \* how many evictions have returned
    rcall,        \* each caller's GetTemplate
    rctx,         \* each caller's context.Context
    held,         \* per caller: the template a registry's GetTemplate returned
    edits         \* how many writes callers have made to templates they were given

formatVars == <<tpl, heap, payloadCache, schemaObj, pc, payload, ctxDone, cancelAt,
                schema, fi, merged, history, idx, out, ret>>
funcVars == <<fn, text, maxN, tc, tpc, lo, hi, asked, tret, execEnd>>
newVars == <<messages, npc, ni, nparsed, nret>>
spliceVars == <<smem, sRendered, sHistory, sInsertAt, sResult, spc, callerHistory>>
regVars == <<rttl, rclock, rcache, rsf, fetchLog, repoch, rcall>>
ctxVars == <<rctx>>
cloneVars == <<held, edits>>
vars == <<formatVars, funcVars, newVars, spliceVars, regVars, ctxVars, cloneVars>>

\* What a step of FormatStruct, of a template function and of
\* NewChatPromptTemplate leaves alone outside its own variables.
outside == <<funcVars, newVars, spliceVars, regVars, ctxVars, cloneVars>>
outsideFunc == <<formatVars, newVars, spliceVars, regVars, ctxVars, cloneVars>>
outsideNew == <<formatVars, funcVars, spliceVars, regVars, ctxVars, cloneVars>>
outsideSplice == <<formatVars, funcVars, newVars, regVars, ctxVars, cloneVars>>
outsideReg == <<formatVars, funcVars, newVars, spliceVars, ctxVars, cloneVars>>

NoSchema == <<0, "">>
\* One schema object per type, shared by the callers that build it.
SchemaPtr_Shared(p, t) == <<1, t>>

\* schema = &payloadSchema{} (option.go line 113): a fresh object of the caller.
SchemaPtr(p, t) == <<p, t>>
SchemaPtrs == {SchemaPtr(p, t) : p \in Procs, t \in TypeNames}

NotCancelled == 0 - 1

\* A nil *PromptExecution.
NilExec ==
    [isNil |-> TRUE, Messages |-> <<>>, Tools |-> NoAddr, ModelConfig |-> NoAddr,
     Metadata |-> [ID |-> "", Tags |-> NoAddr],
     ResponseFormat |-> [Name |-> "", Schema |-> NoAddr]]

Return(exec, err) == [exec |-> exec, err |-> err]
NotReturned == [exec |-> NilExec, err |-> [kind |-> "pending", variable |-> "", template |-> ""]]

\* The objects a caller's call allocates.
ArenaNames == {<<"tools", 0>>, <<"cfg", 0>>, <<"tags", 0>>, <<"schema", 0>>}
                  \cup {<<"meta", i>> : i \in 1..MaxMsgs}
Arena(p) == {<<p, n[1], n[2]>> : n \in ArenaNames}
TplAddrs == {TplTools, TplParams, TplConfig, TplStop, TplTags, TplSchema, TplProps}
                \cup {<<0, "meta", i>> : i \in 1..MaxMsgs}
Addrs == TplAddrs \cup UNION {Arena(p) : p \in Procs}

\* The heap after construction of the template: WithTools, WithConfig,
\* WithMetadata, WithResponseFormat and the messages' metadata.
InitHeap ==
    [a \in Addrs |->
        CASE a = TplTools -> [elems |-> <<"search">>, refs |-> <<TplParams>>]
          [] a = TplParams -> [elems |-> <<"object">>, refs |-> <<>>]
          [] a = TplConfig -> [elems |-> <<"0.7">>, refs |-> <<TplStop>>]
          [] a = TplStop -> [elems |-> <<"END">>, refs |-> <<>>]
          [] a = TplTags -> [elems |-> <<"prod">>, refs |-> <<>>]
          [] a = TplSchema -> [elems |-> <<"object">>, refs |-> <<TplProps>>]
          [] a = TplProps -> [elems |-> <<"answer">>, refs |-> <<>>]
          [] a[1] = 0 /\ a[2] = "meta" -> [elems |-> <<"ephemeral">>, refs |-> <<>>]
          [] OTHER -> EmptyObj]

\* p's allocations dropped (its result is no longer referenced).
freeArena(h, p) == [a \in Addrs |-> IF a \in Arena(p) THEN EmptyObj ELSE h[a]]

\* ------------------------------------------------------------------ inputs
\* The options a template is built with: WithPartialVariables, WithRequiredVars.
TemplateOptions ==
    { [partial |-> EmptyMap, required |-> <<>>],
      [partial |-> EmptyMap, required |-> <<"b", "a", "b">>],
      [partial |-> ("b" :> Str("d")), required |-> <<"b">>],
      [partial |-> ("a" :> Str("") @@ "Tools" :> Str("mine")), required |-> <<>>] }

Templates ==
    {NewChatPromptTemplate(m, o.partial, o.required) :
        m \in SeqsUpTo(MessageSet, MaxMsgs), o \in TemplateOptions}

\* The payloads of the single caller of Spec.
Payloads ==
        {NilPayload, IntPayload(0), IntPayload(1), NilPointer("PAB", 1, 1)}
        \cup {NilPointer("PAB", MaxDepth, k) : k \in 1..MaxDepth}
        \cup {StructPayload("PAB", d, <<Str("x"), Str("y")>>) : d \in 0..MaxDepth}
        \cup UNION {{StructPayload(t, 1, vals) : vals \in StructValues(t)} :
                        t \in {"PAB", "PHist"}}
        \cup {StructPayload("PTools", 1, <<Str(t), Str("x")>>) : t \in {"", "x"}}
        \cup {StructPayload("PNoTags", 1, <<Str("x"), Str("x")>>)}

\* ------------------------------------------------------------------ actions
\* What truncate_chars and truncate_tokens return: (string, error).
FuncResult(t, err) == [text |-> t, err |-> err]
NoResult == FuncResult(<<>>, [kind |-> "pending", variable |-> "", template |-> ""])

\* No template function is being called.
FuncIdle ==
    /\ fn = "none"
    /\ text = <<>>
    /\ maxN = 0
    /\ tc = [cnt |-> <<>>, errAt |-> {}, errN |-> 0]
    /\ tpc = "off"
    /\ lo = 0
    /\ hi = 0
    /\ asked = {}
    /\ tret = NoResult
    /\ execEnd = "none"

\* NewChatPromptTemplate is not being called.
NewIdle ==
    /\ messages = <<>>
    /\ npc = "off"
    /\ ni = 0
    /\ nparsed = <<>>
    /\ nret = [tpl |-> <<>>, err |-> [kind |-> "pending", message |-> 0]]

\* A slice: its backing array and its length; its capacity is the array's
\* length. NilSlice has no array.
Slice(arr, len) == [arr |-> arr, len |-> len]
NilSlice == Slice("nil", 0)
\* No history is being spliced.
SpliceIdle ==
    /\ smem = [a \in {"rendered", "history", "result"} |-> <<>>]
    /\ sRendered = NilSlice
    /\ sHistory = NilSlice
    /\ sInsertAt = 0
    /\ sResult = NilSlice
    /\ spc = "off"
    /\ callerHistory = [slice |-> NilSlice, array |-> <<>>]

\* The registry's one valid key and a name ValidateName rejects.
Keys == {"k"}
BadName == "a:b"
\* A cache entry, and the absence of one.
cacheEntry(t, e) == [ok |-> TRUE, tpl |-> t, expiresAt |-> e]
NoEntry == [ok |-> FALSE, tpl |-> 0, expiresAt |-> 0]
\* No call in flight in the singleflight group.
NoFlight == [running |-> FALSE, fetch |-> 0]
\* What GetTemplate returned: the template (named by the Fetcher call that
\* produced it), the error, and whether it came from the cache.
RegResult(t, e, c) == [tpl |-> t, err |-> e, fromCache |-> c]
NoRegResult == RegResult(0, "", FALSE)
\* What the cache held for the key when GetTemplate was issued: whether there
\* was an entry, its template, and whether it had not expired by then.
Seen(ok, t, fresh) == [ok |-> ok, tpl |-> t, fresh |-> fresh]
NotSeen == Seen(FALSE, 0, FALSE)
\* A caller that is not in GetTemplate.
IdleCall ==
    [pc |-> "idle", name |-> "", now |-> 0, seen |-> NotSeen,
     epoch |-> 0, alone |-> FALSE, got |-> 0, ret |-> NoRegResult]
\* No registry is in use.
\* The goroutines that call the registry.
Callers == {"g1", "g2"}
\* A context: whether its cancel function was called, and its deadline: none,
\* set and still ahead, or passed.
Context(cancelled, deadline) == [cancelled |-> cancelled, deadline |-> deadline]
Background == Context(FALSE, "none")
\* The writes callers make to the templates they were given.
MaxEdits == 2

\* A caller that holds no template of a registry.
NoClone == [isNil |-> TRUE]
RegIdle ==
    /\ rctx = [p \in Callers |-> Background]
    /\ held = [p \in Procs |-> NoClone]
    /\ edits = 0
    /\ rttl = 0
    /\ rclock = 0
    /\ rcache = [k \in Keys |-> NoEntry]
    /\ rsf = [k \in Keys |-> NoFlight]
    /\ fetchLog = <<>>
    /\ repoch = 0
    /\ rcall = [p \in Callers |-> IdleCall]

\* No template is being rendered.
FormatIdle ==
    /\ tpl = <<>>
    /\ heap = <<>>
    /\ payloadCache = <<>>
    /\ schemaObj = <<>>
    /\ pc = <<>>
    /\ payload = <<>>
    /\ ctxDone = <<>>
    /\ cancelAt = <<>>
    /\ schema = <<>>
    /\ fi = <<>>
    /\ merged = <<>>
    /\ history = <<>>
    /\ idx = <<>>
    /\ out = <<>>
    /\ ret = <<>>

FormatInit ==
    /\ heap = InitHeap
    /\ payloadCache = [t \in TypeNames |-> NoSchema]
    /\ schemaObj = [sp \in SchemaPtrs |-> <<>>]
    /\ pc = [p \in Procs |-> "idle"]
    /\ payload = [p \in Procs |-> NilPayload]
    /\ ctxDone = [p \in Procs |-> FALSE]
    /\ cancelAt = [p \in Procs |-> NotCancelled]
    /\ schema = [p \in Procs |-> NoSchema]
    /\ fi = [p \in Procs |-> 0]
    /\ merged = [p \in Procs |-> EmptyMap]
    /\ history = [p \in Procs |-> NoHist]
    /\ idx = [p \in Procs |-> 0]
    /\ out = [p \in Procs |-> <<>>]
    /\ ret = [p \in Procs |-> NotReturned]

InitRest == FormatInit /\ FuncIdle /\ NewIdle /\ SpliceIdle /\ RegIdle

Init == tpl \in Templates /\ InitRest

\* An error return that hands out the messages rendered so far.
returns_Partial(p, exec, err) ==
    /\ ret' = [ret EXCEPT ![p] =
                  Return([exec EXCEPT !.isNil = out[p] = <<>>, !.Messages = out[p]], err)]
    /\ pc' = [pc EXCEPT ![p] = "done"]
    /\ schema' = [schema EXCEPT ![p] = NoSchema]
    /\ fi' = [fi EXCEPT ![p] = 0]
    /\ merged' = [merged EXCEPT ![p] = EmptyMap]
    /\ history' = [history EXCEPT ![p] = NoHist]
    /\ idx' = [idx EXCEPT ![p] = 0]
    /\ out' = [out EXCEPT ![p] = <<>>]

\* FormatStruct returns (exec, err): the call's locals go out of scope.
returns(p, exec, err) ==
    /\ ret' = [ret EXCEPT ![p] = Return(exec, err)]
    /\ pc' = [pc EXCEPT ![p] = "done"]
    /\ schema' = [schema EXCEPT ![p] = NoSchema]
    /\ fi' = [fi EXCEPT ![p] = 0]
    /\ merged' = [merged EXCEPT ![p] = EmptyMap]
    /\ history' = [history EXCEPT ![p] = NoHist]
    /\ idx' = [idx EXCEPT ![p] = 0]
    /\ out' = [out EXCEPT ![p] = <<>>]

\* The schema published as soon as it is allocated.
cacheAfterAlloc_Publish(p, t) == [payloadCache EXCEPT ![t] = SchemaPtr(p, t)]

\* payloadCache after a miss allocated the schema (option.go line 113): the new
\* schema is local to the call until the loop is over.
cacheAfterAlloc(p, t) == payloadCache

\* A caller calls FormatStruct(ctx, pl); the call runs getPayloadFields up to
\* its payloadCache.Load (option.go lines 91-113).
Call(p, pl, cancelled) ==
    /\ pc[p] = "idle"
    /\ payload' = [payload EXCEPT ![p] = pl]
    /\ ctxDone' = [ctxDone EXCEPT ![p] = cancelled]
    /\ cancelAt' = [cancelAt EXCEPT ![p] = IF cancelled THEN 1 ELSE NotCancelled]
    /\ IF payloadUnusable(pl)
       THEN /\ returns(p, NilExec, ErrInvalidPayload)
            /\ UNCHANGED <<schemaObj, payloadCache>>
       ELSE /\ IF payloadCache[pl.typ] # NoSchema
               THEN /\ schema' = [schema EXCEPT ![p] = payloadCache[pl.typ]]
                    /\ pc' = [pc EXCEPT ![p] = "extract"]
                    /\ UNCHANGED <<schemaObj, fi, payloadCache>>
               ELSE /\ schema' = [schema EXCEPT ![p] = SchemaPtr(p, pl.typ)]
                    /\ schemaObj' = [schemaObj EXCEPT ![SchemaPtr(p, pl.typ)] = <<>>]
                    /\ payloadCache' = cacheAfterAlloc(p, pl.typ)
                    /\ fi' = [fi EXCEPT ![p] = 1]
                    /\ pc' = [pc EXCEPT ![p] = "build"]
            /\ UNCHANGED <<merged, history, idx, out, ret>>
    /\ UNCHANGED <<outside, tpl, heap>>

\* One iteration of the schema loop (option.go lines 114-125).
BuildSchemaField(p) ==
    /\ pc[p] = "build"
    /\ fi[p] <= Len(TypeFields(payload[p].typ))
    /\ schemaObj' = [schemaObj EXCEPT
                        ![schema[p]] = schemaLoopStep(@, payload[p].typ, fi[p])]
    /\ fi' = [fi EXCEPT ![p] = @ + 1]
    /\ UNCHANGED <<outside, tpl, heap, payloadCache, pc, payload, ctxDone, cancelAt, schema,
                   merged, history, idx, out, ret>>

\* What StoreSchema writes to the cache.
storedSchema(p) == schema[p]

\* The schema loop is over (option.go lines 126-129): a schema without fields is
\* an error, any other is stored in payloadCache.
StoreSchema(p) ==
    /\ pc[p] = "build"
    /\ fi[p] > Len(TypeFields(payload[p].typ))
    /\ IF Len(schemaObj[schema[p]]) = 0
       THEN /\ returns(p, NilExec, ErrInvalidPayload)
            /\ UNCHANGED payloadCache
       ELSE /\ payloadCache' = [payloadCache EXCEPT ![payload[p].typ] = storedSchema(p)]
            /\ pc' = [pc EXCEPT ![p] = "extract"]
            /\ fi' = [fi EXCEPT ![p] = 0]
            /\ UNCHANGED <<schema, merged, history, idx, out, ret>>
    /\ UNCHANGED <<outside, tpl, heap, schemaObj, payload, ctxDone, cancelAt>>

\* The rest of getPayloadFields (option.go lines 131-149), then the merge and
\* the validation of FormatStruct (lines 149-164).
ExtractAndValidate(p) ==
    /\ pc[p] = "extract"
    /\ LET got == extractFields(schemaObj[schema[p]], payload[p])
           m == mergeVariables(tpl, got.vars)
           required == mergeRequiredVars(tpl.RequiredVars, tpl.requiredFromAST)
           missing == firstMissing(required, m, 1)
       IN IF got.err # NoErr
          THEN returns(p, NilExec, got.err)
          ELSE IF missing # 0
               THEN returns(p, NilExec, VariableError(required[missing], tpl.Metadata.ID))
               ELSE /\ merged' = [merged EXCEPT ![p] = m]
                    /\ history' = [history EXCEPT ![p] = got.history]
                    /\ idx' = [idx EXCEPT ![p] = 1]
                    /\ out' = [out EXCEPT ![p] = <<>>]
                    /\ pc' = [pc EXCEPT ![p] = "render"]
                    /\ schema' = [schema EXCEPT ![p] = NoSchema]
                    /\ UNCHANGED <<fi, ret>>
    /\ UNCHANGED <<outside, tpl, heap, payloadCache, schemaObj, payload, ctxDone, cancelAt>>

\* A loop that looks at the context only from its second message on.
ctxErrSet_SkipFirst(p) == ctxDone[p] /\ idx[p] > 1

\* A loop that reports the execution error of a message before the
\* cancellation.
ctxErrSet_UnlessFails(p) ==
    ctxDone[p] /\ Execute(tpl.parsedTemplates[idx[p]].tpl, merged[p], heap).ok

\* A loop that knows the context only as it was when the call began.
ctxErrSet_AtCall(p) == ctxDone[p] /\ cancelAt[p] = 1

\* Whether the render loop sees the context cancelled (ctx.Err() != nil).
ctxErrSet(p) == ctxDone[p]

\* Whether message pm is elided (line 172).
optionalSkip(pm, m) == pm.optional /\ allVarsZeroForMessage(m, pm.vars)

\* One iteration of the render loop (lines 165-187).
RenderMessage(p) ==
    /\ pc[p] = "render"
    /\ idx[p] <= Len(tpl.parsedTemplates)
    /\ LET i == idx[p]
           pm == tpl.parsedTemplates[i]
           run == Execute(pm.tpl, merged[p], heap)
           dst == <<p, "meta", i>>
       IN IF ctxErrSet(p)
          THEN /\ returns(p, NilExec, ErrCanceled)
               /\ heap' = freeArena(heap, p)
          ELSE IF optionalSkip(pm, merged[p])
               THEN /\ idx' = [idx EXCEPT ![p] = i + 1]
                    /\ UNCHANGED <<heap, pc, schema, fi, merged, history, out, ret>>
               ELSE IF ~run.ok
                    THEN /\ returns(p, NilExec, ErrTemplateRender)
                         /\ heap' = freeArena(heap, p)
                    ELSE /\ out' = [out EXCEPT ![p] =
                                Append(@, ChatMessage(pm.role, <<run.text>>,
                                                      cloneAddr(pm.metadata, dst)))]
                         /\ heap' = cloneHeap(heap, pm.metadata, dst)
                         /\ idx' = [idx EXCEPT ![p] = i + 1]
                         /\ UNCHANGED <<pc, schema, fi, merged, history, ret>>
    /\ UNCHANGED <<outside, tpl, payloadCache, schemaObj, payload, ctxDone, cancelAt>>

\* The PromptExecution of lines 188-207 for caller p: the spliced messages and
\* the addresses of p's clones of the template's slices and maps.
promptExecution(c, p, rendered, hist) ==
    [isNil |-> FALSE,
     Messages |-> spliceHistory(rendered, hist),
     Tools |-> cloneAddr(c.Tools, <<p, "tools", 0>>),
     ModelConfig |-> cloneAddr(c.ModelConfig, <<p, "cfg", 0>>),
     Metadata |-> [ID |-> c.Metadata.ID,
                   Tags |-> cloneAddr(c.Metadata.Tags, <<p, "tags", 0>>)],
     ResponseFormat |-> [Name |-> c.ResponseFormat.Name,
                         Schema |-> cloneAddr(c.ResponseFormat.Schema, <<p, "schema", 0>>)]]

\* After the loop (lines 188-207): the splice and the PromptExecution.
FinishRender(p) ==
    /\ pc[p] = "render"
    /\ idx[p] > Len(tpl.parsedTemplates)
    /\ LET h1 == cloneHeap(heap, tpl.Metadata.Tags, <<p, "tags", 0>>)
           h2 == cloneHeap(h1, tpl.ResponseFormat.Schema, <<p, "schema", 0>>)
           h3 == cloneHeap(h2, tpl.Tools, <<p, "tools", 0>>)
           h4 == cloneHeap(h3, tpl.ModelConfig, <<p, "cfg", 0>>)
       IN /\ heap' = h4
          /\ ret' = [ret EXCEPT ![p] =
                        Return(promptExecution(tpl, p, out[p], history[p]), NoErr)]
          /\ pc' = [pc EXCEPT ![p] = "done"]
          /\ idx' = [idx EXCEPT ![p] = 0]
          /\ out' = [out EXCEPT ![p] = <<>>]
          /\ history' = [history EXCEPT ![p] = NoHist]
          /\ UNCHANGED <<schema, fi, merged>>
    /\ UNCHANGED <<outside, tpl, payloadCache, schemaObj, payload, ctxDone, cancelAt>>

\* The owner of p's context cancels it while the render loop runs, before the
\* check of message idx[p] (a cancellation before the loop is Call's choice of
\* an already cancelled context: the loop's first check is the first to look).
Cancel(p) ==
    /\ pc[p] = "render"
    /\ ~ctxDone[p]
    /\ ctxDone' = [ctxDone EXCEPT ![p] = TRUE]
    /\ cancelAt' = [cancelAt EXCEPT ![p] = idx[p]]
    /\ UNCHANGED <<outside, tpl, heap, payloadCache, schemaObj, pc, payload, schema, fi,
                   merged, history, idx, out, ret>>

\* The caller drops the result and is ready for another call.
Forget(p) ==
    /\ pc[p] = "done"
    /\ pc' = [pc EXCEPT ![p] = "idle"]
    /\ ret' = [ret EXCEPT ![p] = NotReturned]
    /\ payload' = [payload EXCEPT ![p] = NilPayload]
    /\ ctxDone' = [ctxDone EXCEPT ![p] = FALSE]
    /\ cancelAt' = [cancelAt EXCEPT ![p] = NotCancelled]
    /\ merged' = [merged EXCEPT ![p] = EmptyMap]
    /\ heap' = freeArena(heap, p)
    /\ UNCHANGED <<outside, tpl, payloadCache, schemaObj, schema, fi, history, idx, out>>

\* One caller, every template and payload.
Next ==
    \/ \E pl \in Payloads, cancelled \in BOOLEAN : Call(1, pl, cancelled)
    \/ BuildSchemaField(1)
    \/ StoreSchema(1)
    \/ ExtractAndValidate(1)
    \/ RenderMessage(1)
    \/ FinishRender(1)
    \/ Cancel(1)
    \/ Forget(1)

Spec == Init /\ [][Next]_vars
Succeeded(p) == pc[p] = "done" /\ ret[p].err = NoErr

\* ------------------------------------------------------------------ optional messages
\* Templates with optional messages that refer to no variable, or to .Tools
\* only, next to messages that are rendered.
OptTemplates ==
    {NewChatPromptTemplate(m, o.partial, o.required) :
        m \in SeqsUpTo({ MessageTemplate(RoleSystem, Body("note", <<>>), TRUE, TRUE),
                         MessageTemplate(RoleAssistant, Body("bare", <<"Tools", "Tools">>),
                                         TRUE, FALSE),
                         MessageTemplate(RoleSystem, Body("sys", <<>>), FALSE, TRUE),
                         MessageTemplate(RoleUser, Body("ask", <<"a">>), FALSE, FALSE) },
                       MaxMsgs),
        o \in TemplateOptions}

InitOpt == tpl \in OptTemplates /\ InitRest

SpecOpt == InitOpt /\ [][Next]_vars

\* ------------------------------------------------------------------ callers
\* The templates and payloads of the concurrent callers.
TplSysOpt ==
    NewChatPromptTemplate(
        <<MessageTemplate(RoleSystem, Body("sys", <<>>), FALSE, TRUE),
          MessageTemplate(RoleUser, Body("opt", <<"a", "b">>), TRUE, FALSE)>>,
        EmptyMap, <<>>)
TplToolsAsk ==
    NewChatPromptTemplate(
        <<MessageTemplate(RoleDeveloper, Body("tools", <<"Tools">>), FALSE, FALSE),
          MessageTemplate(RoleUser, Body("ask", <<"a">>), FALSE, FALSE)>>,
        ("b" :> Str("d")), <<"b">>)
ConcTemplates == {TplSysOpt, TplToolsAsk}

ConcPayloads ==
    { StructPayload("PAB", 1, <<Str("x"), Str("y")>>),
      StructPayload("PAB", 1, <<Str(""), NilV>>),
      StructPayload("PNoTags", 1, <<Str("x"), Str("x")>>) }

InitConc == tpl \in ConcTemplates /\ InitRest

\* Any number of callers on one template, their steps interleaved.
NextConc ==
    \E p \in Procs :
        \/ \E pl \in ConcPayloads : Call(p, pl, FALSE)
        \/ BuildSchemaField(p)
        \/ StoreSchema(p)
        \/ ExtractAndValidate(p)
        \/ RenderMessage(p)
        \/ FinishRender(p)
        \/ Forget(p)

SpecConc == InitConc /\ [][NextConc]_vars
\* ------------------------------------------------------------------ the caller's writes
\* The objects a PromptExecution gives its holder access to.
resultRoots(e) ==
    ({e.Tools, e.ModelConfig, e.Metadata.Tags, e.ResponseFormat.Schema}
        \cup {e.Messages[j].Metadata : j \in DOMAIN e.Messages}) \ {NoAddr}
reachable(h, roots) == roots \cup UNION {Range(h[a].refs) : a \in roots}

\* The holder of a result writes to it: to an element of one of its slices or
\* maps, or of a slice or map one of these refers to (say
\* exec.Tools[0].Parameters["type"] = ...).
Mutate(p) ==
    /\ Succeeded(p)
    /\ \E a \in reachable(heap, resultRoots(ret[p].exec)) :
        /\ heap[a].elems # <<>>
        /\ heap[a].elems[1] # "edited"
        /\ heap' = [heap EXCEPT ![a].elems[1] = "edited"]
    /\ UNCHANGED <<outside, tpl, payloadCache, schemaObj, pc, payload, ctxDone, cancelAt,
                   schema, fi, merged, history, idx, out, ret>>

MutPayloads ==
    { StructPayload("PAB", 1, <<Str("x"), Str("y")>>),
      StructPayload("PToolsPriv", 1, <<Str("x"), Str("t")>>),
      StructPayload("PToolsHist", 1, <<HistV(<<HistMsg(RoleUser, "h1")>>)>>),
      StructPayload("PHist2", 1, <<HistV(<<HistMsg(RoleUser, "h1")>>),
                                   HistV(<<HistMsg(RoleUser, "h2")>>)>>),
      StructPayload("PHist2", 1, <<HistV(<<HistMsg(RoleUser, "h1")>>), HistV(NoHist)>>) }

InitMut == tpl \in {TplSysOpt, TplToolsAsk} /\ InitRest

\* A caller that renders, writes to what it got, and renders again.
NextMut ==
    \/ \E pl \in MutPayloads : Call(1, pl, FALSE)
    \/ BuildSchemaField(1)
    \/ StoreSchema(1)
    \/ ExtractAndValidate(1)
    \/ RenderMessage(1)
    \/ FinishRender(1)
    \/ Mutate(1)
    \/ Forget(1)

SpecMut == InitMut /\ [][NextMut]_vars

\* ------------------------------------------------------------------ template functions
\* A Go string is modelled as the sequence of the units utf8 decoding splits it
\* into: the encoding of a code point, or one byte that starts no valid
\* encoding.
BadByte == "\\xff"
RuneError == "\\uFFFD"
Units == {"a", "\\u043f", BadByte}
Texts == SeqsUpTo(Units, MaxTextLen)

\* []rune(text): one rune per unit, U+FFFD for a byte that decodes to nothing.
runesOf(t) == [j \in DOMAIN t |-> IF t[j] = BadByte THEN RuneError ELSE t[j]]
\* string(runes): the encodings of the runes one after the other.
stringOf(runes) == runes
\* utf8.RuneCountInString(text)
RuneCountInString(t) == Len(t)

\* A truncation that cuts one code point too early.
truncateChars_OneShort(t, maxChars) ==
    IF maxChars <= 0 THEN <<>>
    ELSE IF RuneCountInString(t) <= maxChars THEN t
    ELSE stringOf(SubSeq(runesOf(t), 1, maxChars - 1))

\* truncateChars (funcmap.go lines 27-36)
truncateChars(t, maxChars) ==
    IF maxChars <= 0 THEN <<>>
    ELSE IF RuneCountInString(t) <= maxChars THEN t
    ELSE stringOf(SubSeq(runesOf(t), 1, maxChars))

\* A TokenCounter: cnt[k + 1] is its count for a string of k code points, errAt
\* the lengths for which Count returns an error, errN the count it returns
\* along with an error.
CountErr == [kind |-> "counter", variable |-> "", template |-> ""]
TokenCounts == 0..(MaxTextLen - 1)
Monotonic(cnt) == \A j \in 1..(Len(cnt) - 1) : cnt[j] <= cnt[j + 1]
TokenCounters ==
    {[cnt |-> c, errAt |-> e, errN |-> n] :
        c \in {f \in [1..(MaxTextLen + 1) -> TokenCounts] : Monotonic(f)},
        e \in {{}} \cup {{k} : k \in 0..MaxTextLen},
        n \in {0}}
\* The fallback counter of part_023 with CharsPerToken = 2: ceil(runes / 2).
CharFallbackCounter ==
    [cnt |-> [j \in 1..(MaxTextLen + 1) |-> ((j - 1) + 2 - 1) \div 2], errAt |-> {}, errN |-> 0]

\* tc.Count of a string of k code points: (n, err)
Count(c, k) ==
    IF k \in c.errAt THEN [n |-> c.errN, err |-> CountErr]
    ELSE [n |-> c.cnt[k + 1], err |-> NoErr]

funcReturns(t, err) ==
    /\ tret' = FuncResult(t, err)
    /\ tpc' = "returned"

\* {{ truncate_chars .text n }}
CallTruncateChars ==
    /\ tpc = "idle"
    /\ fn = "truncate_chars"
    /\ funcReturns(truncateChars(text, maxN), NoErr)
    /\ UNCHANGED <<outsideFunc, fn, text, maxN, tc, lo, hi, asked, execEnd>>

\* {{ truncate_tokens .text n }} up to its loop (funcmap.go lines 41-52)
CallTruncateTokens ==
    /\ tpc = "idle"
    /\ fn = "truncate_tokens"
    /\ IF maxN <= 0
       THEN /\ funcReturns(<<>>, NoErr)
            /\ UNCHANGED <<lo, hi, asked>>
       ELSE LET c == Count(tc, RuneCountInString(text))
            IN /\ asked' = asked \cup {RuneCountInString(text)}
               /\ IF c.err # NoErr
                  THEN funcReturns(<<>>, c.err) /\ UNCHANGED <<lo, hi>>
                  ELSE IF c.n <= maxN
                       THEN funcReturns(text, NoErr) /\ UNCHANGED <<lo, hi>>
                       ELSE /\ lo' = 0
                            /\ hi' = Len(runesOf(text))
                            /\ tpc' = "search"
                            /\ UNCHANGED tret
    /\ UNCHANGED <<outsideFunc, fn, text, maxN, tc, execEnd>>

\* A search that keeps a prefix only when it is under the limit.
searchFits_Strict(n, maxTokens) == n < maxTokens

\* Whether the loop keeps the prefix it counted (line 56)
searchFits(n, maxTokens) == n <= maxTokens

\* A midpoint rounded down.
searchMid_Floor(l, h) == (l + h) \div 2

\* mid of the binary search (line 54), rounded up.
searchMid(l, h) == (l + h + 1) \div 2

\* One iteration of the binary search (lines 53-61); the error of Count is
\* dropped, its count is used.
SearchStep ==
    /\ tpc = "search"
    /\ lo < hi
    /\ LET mid == searchMid(lo, hi)
           c == Count(tc, mid)
       IN /\ asked' = asked \cup {mid}
          /\ IF searchFits(c.n, maxN)
             THEN lo' = mid /\ UNCHANGED hi
             ELSE hi' = mid - 1 /\ UNCHANGED lo
    /\ UNCHANGED <<outsideFunc, fn, text, maxN, tc, tpc, tret, execEnd>>

\* The search is over (line 62)
SearchReturn ==
    /\ tpc = "search"
    /\ lo >= hi
    /\ funcReturns(stringOf(SubSeq(runesOf(text), 1, lo)), NoErr)
    /\ UNCHANGED <<outsideFunc, fn, text, maxN, tc, lo, hi, asked, execEnd>>

\* Execute returns to FormatStruct (part_020 lines 176-180): an error of the
\* function is an error of Execute, which FormatStruct wraps.
ExecuteReturns ==
    /\ tpc = "returned"
    /\ execEnd' = IF tret.err # NoErr THEN "ErrTemplateRender" ELSE "ok"
    /\ tpc' = "done"
    /\ UNCHANGED <<outsideFunc, fn, text, maxN, tc, lo, hi, asked, tret>>

\* A render of one message whose pipeline calls one of the two functions.
InitFunc ==
    /\ FormatIdle
    /\ NewIdle
    /\ SpliceIdle
    /\ RegIdle
    /\ text \in Texts
    /\ maxN \in (0 - 1)..MaxTextLen
    /\ \/ fn = "truncate_chars" /\ tc = CharFallbackCounter
       \/ fn = "truncate_tokens" /\ tc \in TokenCounters \cup {CharFallbackCounter}
    /\ tpc = "idle"
    /\ lo = 0
    /\ hi = 0
    /\ asked = {}
    /\ tret = NoResult
    /\ execEnd = "none"

NextFunc ==
    \/ CallTruncateChars
    \/ CallTruncateTokens
    \/ SearchStep
    \/ SearchReturn
    \/ ExecuteReturns

SpecFunc == InitFunc /\ [][NextFunc]_vars

\* Counters of any shape, monotonic or not: each prefix length counts as 0 or
\* as MaxTextLen tokens, which is under or over every limit tried.
SearchCounters ==
    {[cnt |-> c, errAt |-> {}, errN |-> 0] :
        c \in [1..(MaxTextLen + 1) -> {0, MaxTextLen}]}

\* A pipeline that calls truncate_tokens with such a counter.
InitSearch ==
    /\ FormatIdle
    /\ NewIdle
    /\ SpliceIdle
    /\ RegIdle
    /\ text \in SeqsUpTo({"a", BadByte}, MaxTextLen)
    /\ maxN \in 0..(MaxTextLen - 1)
    /\ fn = "truncate_tokens"
    /\ tc \in SearchCounters
    /\ tpc = "idle"
    /\ lo = 0
    /\ hi = 0
    /\ asked = {}
    /\ tret = NoResult
    /\ execEnd = "none"

NextSearch ==
    \/ CallTruncateTokens
    \/ SearchStep
    \/ SearchReturn
    \/ ExecuteReturns

\* The function runs in the goroutine of the render, which is scheduled as
\* long as it has a step to take.
SpecSearch == InitSearch /\ [][NextSearch]_vars /\ WF_vars(NextSearch)

\* ------------------------------------------------------------------ construction
\* The message body of TestNewChatPromptTemplate_ParseError, which text/template
\* refuses to parse.
BadContent == Body("{{ end }}", <<>>)
\* Whether root.New(name).Parse(m.Content) returns an error (line 89).
ParseFails(content) == content = BadContent

\* The error of line 91; message is the 0-based index i of the loop.
ParseError(i) == [kind |-> "ErrTemplateParse", message |-> i]
NoParseError == [kind |-> "nil", message |-> 0]
NilTemplate == <<>>

\* A loop that leaves out the message that does not parse.
onParseError_Skip(i) == [stop |-> FALSE, err |-> NoParseError]

\* What the loop does with a message that does not parse (lines 90-92)
onParseError(i) == [stop |-> TRUE, err |-> ParseError(i)]

\* One iteration of the parse loop (part_020 lines 87-101)
ParseMessage ==
    /\ npc = "parse"
    /\ ni <= Len(messages)
    /\ LET m == messages[ni]
           failed == onParseError(ni - 1)
       IN IF ParseFails(m.Content)
          THEN IF failed.stop
               THEN /\ nret' = [tpl |-> NilTemplate, err |-> failed.err]
                    /\ npc' = "done"
                    /\ nparsed' = <<>>
                    /\ UNCHANGED ni
               ELSE /\ ni' = ni + 1
                    /\ UNCHANGED <<npc, nparsed, nret>>
          ELSE /\ nparsed' = Append(nparsed, parsedMessage(m, ni))
               /\ ni' = ni + 1
               /\ UNCHANGED <<npc, nret>>
    /\ UNCHANGED <<outsideNew, messages>>

\* After the loop (lines 103-104)
FinishNew ==
    /\ npc = "parse"
    /\ ni > Len(messages)
    /\ nret' = [tpl |-> [PartialVariables |-> EmptyMap,
                         Tools |-> TplTools,
                         ModelConfig |-> TplConfig,
                         Metadata |-> [ID |-> "tmpl", Tags |-> TplTags],
                         ResponseFormat |-> [Name |-> "out", Schema |-> TplSchema],
                         RequiredVars |-> <<>>,
                         requiredFromAST |-> extractRequiredVarsFromParsed(nparsed),
                         parsedTemplates |-> nparsed],
                err |-> NoParseError]
    /\ npc' = "done"
    /\ UNCHANGED <<outsideNew, messages, ni, nparsed>>

\* NewChatPromptTemplate called with messages some of which may not parse.
InitNew ==
    /\ FormatIdle
    /\ FuncIdle
    /\ SpliceIdle
    /\ RegIdle
    /\ messages \in SeqsUpTo(MessageSet \cup {MessageTemplate(RoleUser, BadContent, FALSE, FALSE)},
                             MaxMsgs)
    /\ npc = "parse"
    /\ ni = 1
    /\ nparsed = <<>>
    /\ nret = [tpl |-> NilTemplate, err |-> [kind |-> "pending", message |-> 0]]

NextNew == ParseMessage \/ FinishNew

SpecNew == InitNew /\ [][NextNew]_vars

\* ------------------------------------------------------------------ slices of a splice
\* The element a cell beyond a slice's length holds.
ZeroMessage == ChatMessage("", <<>>, NoAddr)
\* The elements of slice sl.
elemsOf(mem, sl) == IF sl.arr = "nil" THEN <<>> ELSE SubSeq(mem[sl.arr], 1, sl.len)
\* An array for elems with spare cells behind them.
arrayOf(elems, spare) == elems \o [j \in 1..spare |-> ZeroMessage]

\* A concatenation that appends the tail to history where history has room.
slicesConcat_InPlace(mem, head, mid, tail) ==
    LET room == Len(mem[mid.arr]) - mid.len
        n == Min(room, Len(tail))
        written == [j \in DOMAIN mem[mid.arr] |->
                       IF j > mid.len /\ j <= mid.len + n
                       THEN tail[j - mid.len] ELSE mem[mid.arr][j]]
    IN [mem EXCEPT ![mid.arr] = written,
                   !["result"] = head \o elemsOf(mem, mid) \o tail]

\* slices.Concat(rendered[:insertAt], history, rendered[insertAt:]) (line 285):
\* a new array holding the elements of the three.
slicesConcat(mem, head, mid, tail) ==
    [mem EXCEPT !["result"] = head \o elemsOf(mem, mid) \o tail]

\* getPayloadFields hands the caller's slice on (option.go lines 132-141):
\* history = cm copies the slice header, not the array.
ExtractHistory ==
    /\ spc = "extract"
    /\ sHistory' = callerHistory.slice
    /\ spc' = "splice"
    /\ UNCHANGED <<outsideSplice, smem, sRendered, sInsertAt, sResult, callerHistory>>

\* spliceHistory up to its return (part_020 lines 274-284)
SpliceFindInsert ==
    /\ spc = "splice"
    /\ IF sHistory.len = 0
       THEN /\ sResult' = sRendered
            /\ spc' = "done"
            /\ UNCHANGED sInsertAt
       ELSE /\ sInsertAt' = spliceInsertAt(elemsOf(smem, sRendered), 0, 0)
            /\ spc' = "concat"
            /\ UNCHANGED sResult
    /\ UNCHANGED <<outsideSplice, smem, sRendered, sHistory, callerHistory>>

\* The return of spliceHistory (line 285)
SpliceConcat ==
    /\ spc = "concat"
    /\ LET r == elemsOf(smem, sRendered)
       IN smem' = slicesConcat(smem, SubSeq(r, 1, sInsertAt), sHistory,
                               SubSeq(r, sInsertAt + 1, Len(r)))
    /\ sResult' = Slice("result", sRendered.len + sHistory.len)
    /\ spc' = "done"
    /\ UNCHANGED <<outsideSplice, sRendered, sHistory, sInsertAt, callerHistory>>

\* The rendered messages and the caller's history slice, each with or without
\* spare capacity.
SpliceRendered ==
    SeqsUpTo({ChatMessage(r, <<<<"m">>>>, NoAddr) : r \in {RoleSystem, RoleDeveloper, RoleUser}},
             MaxMsgs)
SpliceHistories ==
    SeqsUpTo({HistMsg(RoleUser, "h1"), HistMsg(RoleSystem, "h0")}, MaxMsgs)
InitSplice ==
    /\ FormatIdle
    /\ FuncIdle
    /\ NewIdle
    /\ RegIdle
    /\ \E r \in SpliceRendered, h \in SpliceHistories, rs \in 0..1, hs \in 0..1,
          nilHist \in BOOLEAN :
        /\ smem = [a \in {"rendered", "history", "result"} |->
                      CASE a = "rendered" -> arrayOf(r, rs)
                        [] a = "history" -> IF nilHist THEN <<>> ELSE arrayOf(h, hs)
                        [] OTHER -> <<>>]
        /\ sRendered = Slice("rendered", Len(r))
        /\ callerHistory =
              IF nilHist THEN [slice |-> NilSlice, array |-> <<>>]
              ELSE [slice |-> Slice("history", Len(h)), array |-> arrayOf(h, hs)]
    /\ sHistory = NilSlice
    /\ sInsertAt = 0
    /\ sResult = NilSlice
    /\ spc = "extract"

NextSplice == ExtractHistory \/ SpliceFindInsert \/ SpliceConcat

SpecSplice == InitSplice /\ [][NextSplice]_vars

\* ------------------------------------------------------------------ remoteregistry
\* The TTLs WithTTL is given, in ticks of the clock (New's default is positive).
TTLs == {0 - 1, 0, 1}

\* An entry that is served whatever the time.
cacheEntryValid_Always(ent, now) == TRUE

\* Registry.cacheEntryValid (part_018 lines 38-40)
cacheEntryValid(ent, now) == rttl <= 0 \/ now < ent.expiresAt

\* A lookup under the lock: the entry to serve, or NoEntry.
lookup(k, now) ==
    IF rcache[k].ok /\ cacheEntryValid(rcache[k], now) THEN rcache[k] ELSE NoEntry

setCall(p, c) == rcall' = [rcall EXCEPT ![p] = c]
regDone(p, res) ==
    setCall(p, [rcall[p] EXCEPT !.pc = "done", !.now = 0, !.got = 0, !.ret = res])

\* The time is before the entry's expiry time; there is none with a TTL of
\* zero or less.
beforeExpiry(ent, now) == rttl <= 0 \/ now < ent.expiresAt

\* Caller q is not inside GetTemplate.
resting(q) == rcall[q].pc \in {"idle", "done"}

\* GetTemplate up to its first reading of the clock (lines 71-76). The call
\* notes what the cache held, how many evictions had returned, and whether
\* another call is under way; a call under way is no longer alone.
GetCall(p, name) ==
    /\ rcall[p].pc = "idle"
    /\ IF name = BadName
       THEN setCall(p, [IdleCall EXCEPT !.pc = "done", !.name = name,
                                         !.ret = RegResult(0, "ErrInvalidName", FALSE)])
       ELSE rcall' = [q \in Callers |->
               IF q = p
               THEN [IdleCall EXCEPT !.pc = "rlock", !.name = name, !.now = rclock,
                                     !.seen = Seen(rcache[name].ok, rcache[name].tpl,
                                                   rcache[name].ok /\
                                                   beforeExpiry(rcache[name], rclock)),
                                     !.epoch = repoch,
                                     !.alone = \A o \in Callers \ {p} : resting(o)]
               ELSE IF resting(q) THEN rcall[q] ELSE [rcall[q] EXCEPT !.alone = FALSE]]
    /\ UNCHANGED <<outsideReg, rttl, rclock, rcache, rsf, fetchLog, repoch>>

\* The lookup under the read lock (lines 78-85)
CheckCache(p) ==
    /\ rcall[p].pc = "rlock"
    /\ LET ent == lookup(rcall[p].name, rcall[p].now)
       IN IF ent.ok
          THEN regDone(p, RegResult(ent.tpl, "", TRUE))
          ELSE setCall(p, [rcall[p] EXCEPT !.pc = "lock", !.now = 0])
    /\ UNCHANGED <<outsideReg, rttl, rclock, rcache, rsf, fetchLog, repoch>>

\* The second lookup, under the write lock, with the clock read again, and the
\* check of the context, whose error by then is ctxErr, none when it is not
\* done (lines 87-99)
Recheck(p, ctxErr) ==
    /\ rcall[p].pc = "lock"
    /\ LET ent == lookup(rcall[p].name, rclock)
       IN IF ent.ok
          THEN regDone(p, RegResult(ent.tpl, "", TRUE))
          ELSE IF ctxErr # ""
               THEN regDone(p, RegResult(0, ctxErr, FALSE))
               ELSE setCall(p, [rcall[p] EXCEPT !.pc = "sfdo"])
    /\ UNCHANGED <<outsideReg, rttl, rclock, rcache, rsf, fetchLog, repoch>>

\* r.sf.Do (line 103): the first caller for a key runs the function and calls
\* the Fetcher (line 106); a caller that finds a call in flight waits for it.
SfDo(p) ==
    /\ rcall[p].pc = "sfdo"
    /\ LET k == rcall[p].name
       IN IF rsf[k].running
          THEN /\ setCall(p, [rcall[p] EXCEPT !.pc = "sfwait"])
               /\ UNCHANGED <<rsf, fetchLog>>
          ELSE /\ Len(fetchLog) < MaxFetches
               /\ fetchLog' = Append(fetchLog, repoch)
               /\ rsf' = [rsf EXCEPT ![k] = [running |-> TRUE, fetch |-> Len(fetchLog) + 1]]
               /\ setCall(p, [rcall[p] EXCEPT !.pc = "fetching"])
    /\ UNCHANGED <<outsideReg, rttl, rclock, rcache, repoch>>

\* The Fetcher returns and the function of sf.Do ends (lines 106-116); the
\* caller and everyone waiting on the call take its result (lines 117-123).
FetchReturn(p, err) ==
    /\ rcall[p].pc = "fetching"
    /\ LET k == rcall[p].name
           sharers == {p} \union {q \in Callers : rcall[q].pc = "sfwait" /\ rcall[q].name = k}
           reported == IF err = "ErrNotFound" THEN "ErrTemplateNotFound" ELSE err
       IN /\ rcall' = [q \in Callers |->
                 IF q \notin sharers THEN rcall[q]
                 ELSE IF err = ""
                      THEN [rcall[q] EXCEPT !.pc = "store", !.got = rsf[k].fetch]
                      ELSE [rcall[q] EXCEPT !.pc = "done", !.now = 0,
                                            !.ret = RegResult(0, reported, FALSE)]]
          /\ rsf' = [rsf EXCEPT ![k] = NoFlight]
    /\ UNCHANGED <<outsideReg, rttl, rclock, rcache, fetchLog, repoch>>

\* The entry is stored and a clone returned (lines 125-133)
StoreEntry(p) ==
    /\ rcall[p].pc = "store"
    /\ LET expiresAt == IF rttl <= 0 THEN 0 ELSE rclock + rttl
       IN rcache' = [rcache EXCEPT ![rcall[p].name] = cacheEntry(rcall[p].got, expiresAt)]
    /\ regDone(p, RegResult(rcall[p].got, "", FALSE))
    /\ UNCHANGED <<outsideReg, rttl, rclock, rsf, fetchLog, repoch>>

\* Registry.Evict (lines 137-145)
Evict(name) ==
    /\ repoch < MaxEvicts
    /\ IF name = BadName
       THEN UNCHANGED <<rcache, repoch>>
       ELSE /\ rcache' = [rcache EXCEPT ![name] = NoEntry]
            /\ repoch' = repoch + 1
    /\ UNCHANGED <<outsideReg, rttl, rclock, rsf, fetchLog, rcall>>

\* Registry.EvictAll (lines 148-152)
EvictAll ==
    /\ repoch < MaxEvicts
    /\ rcache' = [k \in Keys |-> NoEntry]
    /\ repoch' = repoch + 1
    /\ UNCHANGED <<outsideReg, rttl, rclock, rsf, fetchLog, rcall>>

\* Time passes.
Tick ==
    /\ rclock < MaxClock
    /\ rclock' = rclock + 1
    /\ UNCHANGED <<outsideReg, rttl, rcache, rsf, fetchLog, repoch, rcall>>

\* The caller takes what GetTemplate returned.
RegForget(p) ==
    /\ rcall[p].pc = "done"
    /\ setCall(p, IdleCall)
    /\ UNCHANGED <<outsideReg, rttl, rclock, rcache, rsf, fetchLog, repoch>>

\* New (lines 54-67): an empty cache and the TTL of the options.
InitReg ==
    /\ FormatIdle
    /\ FuncIdle
    /\ NewIdle
    /\ SpliceIdle
    /\ rttl \in TTLs
    /\ rclock = 0
    /\ rcache = [k \in Keys |-> NoEntry]
    /\ rsf = [k \in Keys |-> NoFlight]
    /\ fetchLog = <<>>
    /\ repoch = 0
    /\ rcall = [p \in Callers |-> IdleCall]
    /\ rctx = [p \in Callers |-> Background]
    /\ held = [p \in Procs |-> NoClone]
    /\ edits = 0

NextReg ==
    \/ \E p \in Callers, name \in Keys \union {BadName} : GetCall(p, name)
    \/ \E p \in Callers : CheckCache(p)
    \/ \E p \in Callers, ctxErr \in {"", "context.Canceled"} : Recheck(p, ctxErr)
    \/ \E p \in Callers : SfDo(p)
    \/ \E p \in Callers, err \in {"", "ErrFetchFailed", "ErrNotFound"} : FetchReturn(p, err)
    \/ \E p \in Callers : StoreEntry(p)
    \/ \E name \in Keys \union {BadName} : Evict(name)
    \/ EvictAll
    \/ Tick
    \/ \E p \in Callers : RegForget(p)

SpecReg == InitReg /\ [][NextReg]_vars

\* ------------------------------------------------------------------ contexts
\* ctx.Err(): nil until the deadline passes or cancel is called.
Err(ctx) ==
    IF ctx.cancelled THEN "context.Canceled"
    ELSE IF ctx.deadline = "passed" THEN "context.DeadlineExceeded"
         ELSE ""

\* A fetch context that is the caller's own.
detachCancel_Inherit(parent) == parent

\* detachCancel (part_018 lines 21-27): context.WithoutCancel(parent) with the
\* parent's deadline.
detachCancel(parent) == Context(FALSE, parent.deadline)

\* What Fetch can return to the function of sf.Do that caller p runs: data, an
\* error of its own, or the error of its context when that is done.
FetchOutcomes(p) ==
    {"", "ErrFetchFailed"} \cup ({Err(detachCancel(rctx[p]))} \ {""})

\* A caller makes the context of its next call: context.Background() or
\* context.WithTimeout.
NewCtx(p, deadline) ==
    /\ rcall[p].pc = "idle"
    /\ rctx[p] # Context(FALSE, deadline)
    /\ rctx' = [rctx EXCEPT ![p] = Context(FALSE, deadline)]
    /\ UNCHANGED <<formatVars, funcVars, newVars, spliceVars, regVars, cloneVars>>

\* The owner of p's context calls its cancel function.
CancelCtx(p) ==
    /\ ~rctx[p].cancelled
    /\ rctx' = [rctx EXCEPT ![p].cancelled = TRUE]
    /\ UNCHANGED <<formatVars, funcVars, newVars, spliceVars, regVars, cloneVars>>

\* The deadline of p's context passes.
DeadlinePasses(p) ==
    /\ rctx[p].deadline = "set"
    /\ rctx' = [rctx EXCEPT ![p].deadline = "passed"]
    /\ UNCHANGED <<formatVars, funcVars, newVars, spliceVars, regVars, cloneVars>>

\* A registry whose entries do not expire, and two goroutines that call it
\* with contexts of their own.
InitFlight ==
    /\ FormatIdle
    /\ FuncIdle
    /\ NewIdle
    /\ SpliceIdle
    /\ RegIdle

NextFlight ==
    \/ \E p \in Callers, deadline \in {"none", "set"} : NewCtx(p, deadline)
    \/ \E p \in Callers : CancelCtx(p)
    \/ \E p \in Callers : DeadlinePasses(p)
    \/ \E p \in Callers, name \in Keys : GetCall(p, name)
    \/ \E p \in Callers : CheckCache(p)
    \/ \E p \in Callers : Recheck(p, Err(rctx[p]))
    \/ \E p \in Callers : SfDo(p)
    \/ \E p \in Callers : \E err \in FetchOutcomes(p) : FetchReturn(p, err)
    \/ \E p \in Callers : StoreEntry(p)
    \/ \E p \in Callers : RegForget(p)

SpecFlight == InitFlight /\ [][NextFlight]_vars

\* ------------------------------------------------------------------ clones of a registry
\* c.Messages: the message templates c was built from.
MessagesOf(c) ==
    [i \in DOMAIN c.parsedTemplates |->
        [Role |-> c.parsedTemplates[i].role,
         Content |-> c.parsedTemplates[i].tpl,
         Optional |-> c.parsedTemplates[i].optional]]

\* CloneTemplate (part_020 lines 109-144) for caller p: the copy, whose slices
\* and maps are p's clones of c's, and the heap that holds them.
CloneTemplate(c, p, h) ==
    LET h1 == cloneHeap(h, c.Tools, <<p, "tools", 0>>)
        h2 == cloneHeap(h1, c.ResponseFormat.Schema, <<p, "schema", 0>>)
        h3 == cloneHeap(h2, c.ModelConfig, <<p, "cfg", 0>>)
        h4 == IF Len(h[c.Metadata.Tags].elems) > 0
              THEN cloneHeap(h3, c.Metadata.Tags, <<p, "tags", 0>>)
              ELSE h3
    IN [tpl |-> [isNil |-> FALSE,
                 Messages |-> MessagesOf(c),
                 Tools |-> cloneAddr(c.Tools, <<p, "tools", 0>>),
                 RequiredVars |-> c.RequiredVars,
                 requiredFromAST |-> c.requiredFromAST,
                 Metadata |-> [ID |-> c.Metadata.ID,
                               Tags |-> IF Len(h[c.Metadata.Tags].elems) > 0
                                        THEN cloneAddr(c.Metadata.Tags, <<p, "tags", 0>>)
                                        ELSE c.Metadata.Tags],
                 parsedTemplates |-> c.parsedTemplates,
                 ResponseFormat |-> [Name |-> c.ResponseFormat.Name,
                                     Schema |-> cloneAddr(c.ResponseFormat.Schema,
                                                          <<p, "schema", 0>>)],
                 PartialVariables |-> c.PartialVariables,
                 ModelConfig |-> cloneAddr(c.ModelConfig, <<p, "cfg", 0>>)],
        heap |-> h4]

\* GetTemplate of fileregistry (registry.go lines 54-59) and remoteregistry
\* (part_018 lines 78-83) for a key whose template tpl is in the cache: a
\* clone of the cached template.
GetTemplateCached(p) ==
    /\ held[p] = NoClone
    /\ held' = [held EXCEPT ![p] = CloneTemplate(tpl, p, heap).tpl]
    /\ UNCHANGED edits
    /\ heap' = CloneTemplate(tpl, p, heap).heap
    /\ UNCHANGED <<tpl, payloadCache, schemaObj, pc, payload, ctxDone, cancelAt, schema,
                   fi, merged, history, idx, out, ret>>
    /\ UNCHANGED <<funcVars, newVars, spliceVars, regVars, ctxVars>>

\* The slices and maps the holder of a template reaches through its fields.
templateRoots(t) ==
    {t.Tools, t.ModelConfig, t.Metadata.Tags, t.ResponseFormat.Schema} \ {NoAddr}

\* The caller edits an element of a slice or map of its template, or of a
\* slice or map held in one (tpl.Tools[0].Name = ...,
\* tpl.Tools[0].Parameters["type"] = ..., tpl.ModelConfig["stop"][0] = ...).
EditElement(p) ==
    /\ held[p] # NoClone
    /\ edits < MaxEdits
    /\ edits' = edits + 1
    /\ \E a \in reachable(heap, templateRoots(held[p])) :
          /\ heap[a].elems # <<>>
          /\ heap[a].elems[1] # "edited"
          /\ heap' = [heap EXCEPT ![a].elems[1] = "edited"]
    /\ UNCHANGED <<tpl, payloadCache, schemaObj, pc, payload, ctxDone, cancelAt, schema,
                   fi, merged, history, idx, out, ret>>
    /\ UNCHANGED <<funcVars, newVars, spliceVars, regVars, ctxVars, held>>

\* tpl.Tools = append(tpl.Tools, ToolDefinition{Name: "extra"}): the clone has
\* no spare capacity, so append copies it to a new array, which takes the
\* place of the old one.
AppendTool(p) ==
    /\ held[p] # NoClone
    /\ held[p].Tools # NoAddr
    /\ edits < MaxEdits
    /\ edits' = edits + 1
    /\ heap' = [heap EXCEPT ![held[p].Tools].elems = Append(@, "extra")]
    /\ UNCHANGED <<tpl, payloadCache, schemaObj, pc, payload, ctxDone, cancelAt, schema,
                   fi, merged, history, idx, out, ret>>
    /\ UNCHANGED <<funcVars, newVars, spliceVars, regVars, ctxVars, held>>

\* The caller overwrites the content of the first message, a required name or
\* a default of its template.
EditOwn(p, field) ==
    /\ held[p] # NoClone
    /\ edits < MaxEdits
    /\ edits' = edits + 1
    /\ \/ /\ field = "Messages"
          /\ Len(held[p].Messages) > 0
          /\ held' = [held EXCEPT ![p].Messages[1].Content = Body("Mutated", <<>>)]
       \/ /\ field = "RequiredVars"
          /\ Len(held[p].RequiredVars) > 0
          /\ held' = [held EXCEPT ![p].RequiredVars[1] = "edited"]
       \/ /\ field = "PartialVariables"
          /\ held' = [held EXCEPT ![p].PartialVariables = ("c" :> Str("edited")) @@ @]
    /\ held'[p] # held[p]
    /\ UNCHANGED <<formatVars, funcVars, newVars, spliceVars, regVars, ctxVars>>

\* The caller lets go of its template.
DropTemplate(p) ==
    /\ held[p] # NoClone
    /\ held' = [held EXCEPT ![p] = NoClone]
    /\ UNCHANGED edits
    /\ heap' = freeArena(heap, p)
    /\ UNCHANGED <<tpl, payloadCache, schemaObj, pc, payload, ctxDone, cancelAt, schema,
                   fi, merged, history, idx, out, ret>>
    /\ UNCHANGED <<funcVars, newVars, spliceVars, regVars, ctxVars>>

\* A registry with one template loaded, and callers that get it, write to
\* what they got and get it again.
InitClone ==
    /\ tpl \in ConcTemplates
    /\ heap = InitHeap
    /\ payloadCache = <<>>
    /\ schemaObj = <<>>
    /\ pc = <<>>
    /\ payload = <<>>
    /\ ctxDone = <<>>
    /\ cancelAt = <<>>
    /\ schema = <<>>
    /\ fi = <<>>
    /\ merged = <<>>
    /\ history = <<>>
    /\ idx = <<>>
    /\ out = <<>>
    /\ ret = <<>>
    /\ FuncIdle
    /\ NewIdle
    /\ SpliceIdle
    /\ RegIdle

NextClone ==
    \E p \in Procs :
        \/ GetTemplateCached(p)
        \/ EditElement(p)
        \/ AppendTool(p)
        \/ \E field \in {"Messages", "RequiredVars", "PartialVariables"} : EditOwn(p, field)
        \/ DropTemplate(p)

SpecClone == InitClone /\ [][NextClone]_vars

\* ------------------------------------------------------------------ a call on its own
\* The render loop of lines 165-187 run to its end in one go by caller p, whose
\* context is seen cancelled from iteration cAt on.
RECURSIVE renderAlone(_, _, _, _, _, _, _)
renderAlone(c, m, h, p, i, cAt, acc) ==
    IF i > Len(c.parsedTemplates)
    THEN [err |-> NoErr, out |-> acc]
    ELSE LET pm == c.parsedTemplates[i]
             run == Execute(pm.tpl, m, h)
         IN IF cAt # NotCancelled /\ cAt <= i
            THEN [err |-> ErrCanceled, out |-> <<>>]
            ELSE IF optionalSkip(pm, m)
                 THEN renderAlone(c, m, h, p, i + 1, cAt, acc)
                 ELSE IF ~run.ok
                      THEN [err |-> ErrTemplateRender, out |-> <<>>]
                      ELSE renderAlone(c, m, h, p, i + 1, cAt,
                               Append(acc, ChatMessage(pm.role, <<run.text>>,
                                          cloneAddr(pm.metadata, <<p, "meta", i>>))))

\* FormatStruct (lines 147-208) run by caller p with nothing else running.
FormatStructAlone(c, pl, cAt, h, p) ==
    IF payloadUnusable(pl)
    THEN Return(NilExec, ErrInvalidPayload)
    ELSE LET fields == schemaFieldsOf(pl.typ)
             got == extractFields(fields, pl)
             m == mergeVariables(c, got.vars)
             required == mergeRequiredVars(c.RequiredVars, c.requiredFromAST)
             missing == firstMissing(required, m, 1)
             r == renderAlone(c, m, h, p, 1, cAt, <<>>)
         IN IF Len(fields) = 0
            THEN Return(NilExec, ErrInvalidPayload)
            ELSE IF got.err # NoErr
                 THEN Return(NilExec, got.err)
                 ELSE IF missing # 0
                      THEN Return(NilExec,
                                  VariableError(required[missing], c.Metadata.ID))
                      ELSE IF r.err # NoErr
                           THEN Return(NilExec, r.err)
                           ELSE Return(promptExecution(c, p, r.out, got.history), NoErr)

\* ------------------------------------------------------------------ claims
IsLeading(m) == m.Role = RoleSystem \/ m.Role = RoleDeveloper

\* The messages of a result that come from the template (a history message
\* holds one of the callers' texts), as the literals of their bodies.
HistoryTexts == {"h0", "h1", "h2"}
RECURSIVE templateLits(_)
templateLits(msgs) ==
    IF msgs = <<>> THEN <<>>
    ELSE IF Head(msgs).Content[1][1] \in HistoryTexts
         THEN templateLits(Tail(msgs))
         ELSE <<Head(msgs).Content[1][1]>> \o templateLits(Tail(msgs))

\* rendered with history inserted after its leading system/developer run.
SplicedAtBoundary(rendered, hist, result) ==
    \E k \in 0..Len(rendered) :
        /\ \A j \in 1..k : IsLeading(rendered[j])
        /\ k = Len(rendered) \/ ~IsLeading(rendered[k + 1])
        /\ result = SubSeq(rendered, 1, k) \o hist \o SubSeq(rendered, k + 1, Len(rendered))

\* C1: when FormatStruct returns a PromptExecution, its Messages are the
\* rendered list with the whole history, contiguous and in order, inserted at
\* the first position whose role is neither system nor developer, after all the
\* rendered messages when there is no such position (also when nothing was
\* rendered), and the rendered list itself when the history is empty.
C1_HistorySplice ==
    [][\A p \in Procs :
          (pc[p] = "render" /\ pc'[p] = "done" /\ ret'[p].err = NoErr)
              => IF history[p] = <<>>
                 THEN ret'[p].exec.Messages = out[p]
                 ELSE SplicedAtBoundary(out[p], history[p], ret'[p].exec.Messages)]_vars

\* A result [system, user(h1), assistant(h2), user]: a two-message history
\* between the leading system message and the template's user message.
C1_Witness ==
    /\ Succeeded(1)
    /\ Len(ret[1].exec.Messages) = 4
    /\ ret[1].exec.Messages[1].Role = RoleSystem
    /\ ret[1].exec.Messages[2] = HistMsg(RoleUser, "h1")
    /\ ret[1].exec.Messages[3] = HistMsg(RoleAssistant, "h2")
    /\ ret[1].exec.Messages[4].Role = RoleUser
    /\ templateLits(ret[1].exec.Messages) = <<"sys", "ask">>

\* The names a payload supplies: the tags of its exported, non-history fields.
Supplied(pl) ==
    {TypeFields(pl.typ)[j].tag : j \in {i \in DOMAIN TypeFields(pl.typ) :
        /\ TypeFields(pl.typ)[i].tag \notin {"", "-"}
        /\ TypeFields(pl.typ)[i].ftype # "history"
        /\ TypeFields(pl.typ)[i].exported}}

\* The names of the merged map of defaults and payload values (Tools is always
\* set).
MergedNames(c, pl) == DOMAIN c.PartialVariables \cup Supplied(pl) \cup {"Tools"}

\* The required names in order, duplicates kept: the explicit names, then the
\* names the non-optional messages refer to, message by message.
RECURSIVE nonOptionalRefs(_)
nonOptionalRefs(parsed) ==
    IF parsed = <<>> THEN <<>>
    ELSE (IF Head(parsed).optional THEN <<>> ELSE Head(parsed).tpl.refs)
             \o nonOptionalRefs(Tail(parsed))
RequiredInOrder(c) == c.RequiredVars \o nonOptionalRefs(c.parsedTemplates)

AbsentAt(c, pl) ==
    {j \in DOMAIN RequiredInOrder(c) : RequiredInOrder(c)[j] \notin MergedNames(c, pl)}
FirstAbsent(c, pl) ==
    RequiredInOrder(c)[CHOOSE j \in AbsentAt(c, pl) : \A k \in AbsentAt(c, pl) : j <= k]

\* The payload passed extraction: FormatStruct got past getPayloadFields.
Extracted(p) ==
    \/ pc[p] = "render"
    \/ pc[p] = "done" /\ ret[p].err.kind \notin {"ErrInvalidPayload", "ErrReservedVariable"}

\* C2: when a required name (explicit first, then derived from the non-optional
\* messages) is absent from the merged map, FormatStruct returns no
\* PromptExecution and a VariableError wrapping ErrMissingVariable that names
\* the first absent name in that order and the template's ID, and the render
\* loop is never entered.
C2_MissingRequired ==
    \A p \in Procs :
        (Extracted(p) /\ AbsentAt(tpl, payload[p]) # {})
            => /\ pc[p] = "done"
               /\ ret[p] = Return(NilExec,
                                  VariableError(FirstAbsent(tpl, payload[p]), tpl.Metadata.ID))

\* Both a and b are absent, b is required explicitly and a by a message: the
\* error names b.
C2_Witness ==
    /\ pc[1] = "done"
    /\ ret[1].err = VariableError("b", "tmpl")
    /\ tpl.RequiredVars = <<"b", "a", "b">>
    /\ tpl.requiredFromAST = <<"a">>
    /\ MergedNames(tpl, payload[1]) = {"Tools"}

\* A name is absent from m, or present with a nil value or the zero value of
\* its type; a function value is never zero.
AbsentOrZero(m, name) ==
    \/ name \notin DOMAIN m
    \/ m[name].k = "nil"
    \/ m[name].k = "string" /\ m[name].s = ""

Elided(m, pm) == pm.optional /\ \A j \in DOMAIN pm.vars : AbsentOrZero(m, pm.vars[j])

RECURSIVE keptLits(_, _)
keptLits(m, parsed) ==
    IF parsed = <<>> THEN <<>>
    ELSE (IF Elided(m, Head(parsed)) THEN <<>> ELSE <<Head(parsed).tpl.lit>>)
             \o keptLits(m, Tail(parsed))

\* C3: in a render that returns a PromptExecution, the template messages in the
\* output are, in order, exactly those that are not optional or have at least
\* one extracted variable present in the merged map with a value that is not
\* nil or zero (a function never counts as zero).
C3_OptionalElision ==
    \A p \in Procs :
        Succeeded(p)
            => templateLits(ret[p].exec.Messages) = keptLits(merged[p], tpl.parsedTemplates)

\* An optional message over a and b appears although a is the empty string,
\* because b is not zero.
C3_Witness ==
    /\ Succeeded(1)
    /\ "a" \in DOMAIN merged[1] /\ merged[1]["a"] = Str("")
    /\ "b" \in DOMAIN merged[1] /\ merged[1]["b"] = Str("y")
    /\ templateLits(ret[1].exec.Messages) = <<"opt">>
\* The payload is a struct (no nil pointer on the way) one of whose fields is
\* tagged Tools.
HasToolsTag(pl) ==
    /\ pl.base = "struct" /\ pl.nilAt = 0
    /\ \E j \in DOMAIN TypeFields(pl.typ) : TypeFields(pl.typ)[j].tag = "Tools"

\* C4: a payload with a field tagged Tools, whatever the field's type or
\* visibility and whether or not the schema came from the cache, makes
\* FormatStruct fail with ErrReservedVariable and return no PromptExecution.
C4_ToolsTagRejected ==
    \A p \in Procs :
        (pc[p] = "done" /\ HasToolsTag(payload[p]))
            => ret[p] = Return(NilExec, ErrReservedVariable)

\* The value the payload's exported field tagged name holds.
SuppliedValue(pl, name) ==
    pl.vals[CHOOSE j \in DOMAIN TypeFields(pl.typ) :
                /\ TypeFields(pl.typ)[j].tag = name
                /\ TypeFields(pl.typ)[j].ftype # "history"
                /\ TypeFields(pl.typ)[j].exported]

\* C5: the map the messages are executed against holds the template's defaults
\* overridden by the payload's values, with Tools always the template's own
\* tool list, and a message that prints .Tools prints that list.
C5_MergedMap ==
    \A p \in Procs :
        /\ pc[p] = "render"
            => /\ DOMAIN merged[p] = MergedNames(tpl, payload[p])
               /\ merged[p]["Tools"] = ToolsV(tpl.Tools)
               /\ \A n \in DOMAIN merged[p] \ {"Tools"} :
                      merged[p][n] = IF n \in Supplied(payload[p])
                                     THEN SuppliedValue(payload[p], n)
                                     ELSE tpl.PartialVariables[n]
        /\ Succeeded(p)
            => \A j \in DOMAIN ret[p].exec.Messages :
                   ret[p].exec.Messages[j].Content[1][1] = "tools"
                       => ret[p].exec.Messages[j].Content[1] = <<"tools", "search", "object">>

\* The template has defaults for a and for Tools, the payload supplies another
\* a: the payload's a and the template's tool list are in the map.
C5_Witness ==
    /\ pc[1] = "render"
    /\ "a" \in DOMAIN tpl.PartialVariables /\ tpl.PartialVariables["a"] = Str("")
    /\ "Tools" \in DOMAIN tpl.PartialVariables
    /\ merged[1]["a"] = Str("x")
    /\ merged[1]["Tools"] = ToolsV(TplTools)

\* C6: a FormatStruct call returns either a PromptExecution and a nil error, or
\* a nil PromptExecution (no message of it) and an error.
C6_AllOrNothing ==
    \A p \in Procs :
        pc[p] = "done"
            => \/ ~ret[p].exec.isNil /\ ret[p].err = NoErr
               \/ ret[p].exec = NilExec /\ ret[p].err.kind \notin {"nil", "pending"}

\* The second message fails to execute (b is a function) after the first,
\* which refers to no variable, was rendered.
C6_Witness ==
    /\ pc[1] = "done"
    /\ ret[1] = Return(NilExec, ErrTemplateRender)
    /\ Len(tpl.parsedTemplates) = 2
    /\ tpl.parsedTemplates[1].tpl.lit = "sys"
    /\ tpl.parsedTemplates[2].tpl.lit = "opt"
    /\ payload[1].typ = "PAB" /\ payload[1].vals[2] = FuncV("nil")

\* The call's context was cancelled before the loop's first check, its payload
\* passed extraction and no required variable is missing.
CancelledFromStart(p) ==
    /\ pc[p] = "done"
    /\ cancelAt[p] = 1
    /\ ret[p].err.kind \notin {"ErrInvalidPayload", "ErrReservedVariable", "ErrMissingVariable"}

\* C7 as stated: for every template, a context cancelled before the call makes
\* FormatStruct return ctx.Err() and no PromptExecution.
C7_CancelledAnyTemplate ==
    \A p \in Procs : CancelledFromStart(p) => ret[p] = Return(NilExec, ErrCanceled)

\* C7: for every template with at least one message, a context cancelled before
\* the call makes FormatStruct return ctx.Err(), unwrapped, and no
\* PromptExecution.
C7_CancelledNonEmpty ==
    \A p \in Procs :
        (CancelledFromStart(p) /\ Len(tpl.parsedTemplates) >= 1)
            => ret[p] = Return(NilExec, ErrCanceled)

C7_Witness ==
    /\ CancelledFromStart(1)
    /\ Len(tpl.parsedTemplates) = 2
    /\ payload[1].typ = "PHist"
    /\ ret[1] = Return(NilExec, ErrCanceled)

\* C8 (as stated): a result shares no mutable state with the template: whatever
\* the holder of a result writes to it, to the elements of its Tools, ModelConfig,
\* Metadata.Tags, ResponseFormat.Schema or message Metadata and to the maps
\* these hold, the slices and maps of the template stay as they were built.
C8_TemplateUntouched == \A a \in TplAddrs : heap[a] = InitHeap[a]

BeingBuilt(sp) == \E q \in Procs : pc[q] = "build" /\ schema[q] = sp

ClonesMatch(e) ==
    /\ heap[e.Tools] = InitHeap[tpl.Tools]
    /\ heap[e.ModelConfig] = InitHeap[tpl.ModelConfig]
    /\ heap[e.Metadata.Tags] = InitHeap[tpl.Metadata.Tags]
    /\ heap[e.ResponseFormat.Schema] = InitHeap[tpl.ResponseFormat.Schema]
    /\ \A j \in DOMAIN e.Messages :
          e.Messages[j].Metadata # NoAddr =>
              \E i \in DOMAIN tpl.parsedTemplates :
                  /\ e.Messages[j].Metadata[3] = i
                  /\ heap[e.Messages[j].Metadata] = InitHeap[tpl.parsedTemplates[i].metadata]

\* C10: with any number of FormatStruct calls interleaved on one template, each
\* call that has returned holds the result the same call returns when run
\* alone, for as long as it holds it, and the template's slices and maps stay
\* as they were built.
C10_SameAsAlone ==
    /\ \A p \in Procs :
          pc[p] = "done" =>
              /\ ret[p] = FormatStructAlone(tpl, payload[p], cancelAt[p], InitHeap, p)
              /\ ret[p].err = NoErr => ClonesMatch(ret[p].exec)
    /\ \A a \in TplAddrs : heap[a] = InitHeap[a]

C10_Witness ==
    /\ Succeeded(1)
    /\ payload[1].typ = "PAB"
    /\ schemaObj[SchemaPtr(1, "PAB")] # <<>>
    /\ payloadCache["PAB"] = SchemaPtr(2, "PAB")
    /\ pc[2] = "render"
    /\ idx[2] = 2
    /\ payload[2] # payload[1]

IsPrefixOf(r, t) == Len(r) <= Len(t) /\ r = SubSeq(t, 1, Len(r))
ValidUTF8(t) == \A j \in DOMAIN t : t[j] # BadByte
\* The code points of r are the first ones of t, an undecodable byte of t
\* counting as U+FFFD.
IsRunePrefixOf(r, t) ==
    /\ Len(r) <= Len(t)
    /\ \A j \in DOMAIN r : r[j] = t[j] \/ (t[j] = BadByte /\ r[j] = RuneError)
\* truncate_tokens has returned to a render whose counter never fails.
TokensDone == tpc = "done" /\ fn = "truncate_tokens" /\ tc.errAt = {}
countOf(k) == tc.cnt[k + 1]

C12_CountErrorSurfaces ==
    (tpc = "done" /\ fn = "truncate_tokens" /\ asked \cap tc.errAt # {})
        => /\ tret = FuncResult(<<>>, CountErr)
           /\ execEnd = "ErrTemplateRender"

\* C13 (as stated): truncate_chars(s, n) is empty for n <= 0 and otherwise the
\* prefix of s of its first min(n, codePointCount(s)) code points.
C13_CharPrefix ==
    (tpc = "done" /\ fn = "truncate_chars")
        => tret = FuncResult(IF maxN <= 0 THEN <<>>
                             ELSE SubSeq(text, 1, Min(maxN, Len(text))), NoErr)

\* C13 (amended): truncate_chars(s, n) is empty for n <= 0, s itself when s has
\* at most n code points, and otherwise the first n code points of s
\* re-encoded: the prefix of s when these are valid UTF-8, and with U+FFFD in
\* the place of each undecodable byte when they are not.
C13_CharRunePrefix ==
    (tpc = "done" /\ fn = "truncate_chars")
        => /\ tret.err = NoErr
           /\ Len(tret.text) = (IF maxN <= 0 THEN 0 ELSE Min(maxN, Len(text)))
           /\ IsRunePrefixOf(tret.text, text)
           /\ Len(text) <= maxN => tret.text = text
           /\ ValidUTF8(text) => IsPrefixOf(tret.text, text)
           /\ (maxN > 0 /\ Len(text) > maxN) => ValidUTF8(tret.text)

C13_Witness ==
    /\ tpc = "done" /\ fn = "truncate_chars"
    /\ text = <<"a", "\\u043f", "a">>
    /\ maxN = 2
    /\ tret = FuncResult(<<"a", "\\u043f">>, NoErr)

FailingMessages == {i \in DOMAIN messages : ParseFails(messages[i].Content)}
FirstFailing == CHOOSE i \in FailingMessages : \A j \in FailingMessages : i <= j

UsableTag(tag) == tag # "" /\ tag # "-"
\* The payload is nil, a nil pointer at some level, no struct behind its
\* pointers, or a struct none of whose fields has a usable tag.
InvalidShape(pl) ==
    \/ pl.base = "nil"
    \/ pl.base = "int"
    \/ pl.nilAt # 0
    \/ \A j \in DOMAIN TypeFields(pl.typ) : ~UsableTag(TypeFields(pl.typ)[j].tag)

\* C15: FormatStruct fails with ErrInvalidPayload, returning nothing, exactly
\* when the payload is nil, a nil pointer at some level, not a struct behind its
\* pointers, or a struct without a usable prompt tag; behind any number of
\* pointers a struct with a usable tag and no Tools tag passes extraction.
C15_InvalidPayloadExactly ==
    \A p \in Procs :
        pc[p] = "done" =>
            /\ (ret[p].err = ErrInvalidPayload) <=> InvalidShape(payload[p])
            /\ ret[p].err = ErrInvalidPayload => ret[p].exec = NilExec
            /\ (~InvalidShape(payload[p]) /\ ~HasToolsTag(payload[p]))
                   => ret[p].err # ErrReservedVariable

\* A struct behind two pointers is rendered.
C15_Witness ==
    /\ Succeeded(1)
    /\ payload[1].depth = 2
    /\ payload[1].typ = "PAB"
    /\ Len(ret[1].exec.Messages) >= 1

\* The messages of a result that came from the payload's history.
RECURSIVE historyPart(_)
historyPart(msgs) ==
    IF msgs = <<>> THEN <<>>
    ELSE (IF Head(msgs).Content[1][1] \in HistoryTexts THEN <<Head(msgs)>> ELSE <<>>)
             \o historyPart(Tail(msgs))

\* C16: for a payload with two tagged fields of type []ChatMessage, the history
\* in the output is the value of the first of them in declaration order.
C16_FirstHistoryField ==
    \A p \in Procs :
        (Succeeded(p) /\ payload[p].typ = "PHist2")
            => historyPart(ret[p].exec.Messages) = payload[p].vals[1].h

\* No message of c has an extracted variable: its bodies reference nothing, or
\* nothing but .Tools.
NoVariableRefs(c) == \A i \in DOMAIN c.parsedTemplates : c.parsedTemplates[i].vars = <<>>
RoleAndText(msgs) == [j \in DOMAIN msgs |-> <<msgs[j].Role, msgs[j].Content>>]
RECURSIVE withoutHistory(_)
withoutHistory(msgs) ==
    IF msgs = <<>> THEN <<>>
    ELSE (IF Head(msgs).Content[1][1] \in HistoryTexts THEN <<>> ELSE <<Head(msgs)>>)
             \o withoutHistory(Tail(msgs))
\* What the messages of c render to with nothing but the template's own tool
\* list to read.
RECURSIVE staticMessages(_, _)
staticMessages(c, parsed) ==
    IF parsed = <<>> THEN <<>>
    ELSE (IF Head(parsed).optional THEN <<>>
          ELSE <<<<Head(parsed).role,
                   <<Execute(Head(parsed).tpl, "Tools" :> ToolsV(c.Tools), InitHeap).text>>>>>>)
             \o staticMessages(c, Tail(parsed))

C18_HistoryUntouched ==
    /\ callerHistory.slice.arr # "nil" => smem["history"] = callerHistory.array
    /\ spc \in {"splice", "concat", "done"} => sHistory = callerHistory.slice
    /\ spc = "done" =>
          LET h == elemsOf(smem, callerHistory.slice)
              res == elemsOf(smem, sResult)
              r == elemsOf(smem, sRendered)
          IN /\ Len(res) = Len(r) + Len(h)
             /\ \E at \in 0..Len(r) :
                   /\ SubSeq(res, at + 1, at + Len(h)) = h
                   /\ SubSeq(res, 1, at) = SubSeq(r, 1, at)
                   /\ SubSeq(res, at + Len(h) + 1, Len(res)) = SubSeq(r, at + 1, Len(r))

\* A history with a spare cell spliced in front of a user message.
C18_Witness ==
    /\ spc = "done"
    /\ callerHistory.slice.len = 1
    /\ Len(callerHistory.array) = 2
    /\ sRendered.len = 2
    /\ sInsertAt = 1
    /\ sResult = Slice("result", 3)

\* What a call that has returned relied on.
Returned(p) == rcall[p].pc = "done" /\ rcall[p].name \in Keys
ServedFromCache(p) == Returned(p) /\ rcall[p].ret.err = "" /\ rcall[p].ret.fromCache
\* The call of p found an entry that had not expired and no eviction has
\* returned since.
FoundFresh(p) ==
    /\ rcall[p].pc # "idle"
    /\ rcall[p].name \in Keys
    /\ rcall[p].seen.ok
    /\ rcall[p].seen.fresh
    /\ rcall[p].epoch = repoch
FoundExpired(p) == Returned(p) /\ rcall[p].seen.ok /\ ~rcall[p].seen.fresh
\* A call that found a live entry never goes to the Fetcher.
ServedWithoutFetch ==
    \A p \in Callers : FoundFresh(p) => rcall[p].pc = "rlock" \/ ServedFromCache(p)

\* C19 as stated: an entry never expires with a TTL of zero or less and is
\* served from the cache before its expiry time when the TTL is positive, no
\* Fetcher call being made unless the key is evicted; a GetTemplate issued at
\* or after the expiry time calls the Fetcher again and replaces the entry.
C19_ExpiredAlwaysRefetched ==
    /\ ServedWithoutFetch
    /\ \A p \in Callers :
          FoundExpired(p) => rcall[p].ret.err = "" /\ ~rcall[p].ret.fromCache

\* C19, amended: the same for live entries; a GetTemplate issued at or after
\* the expiry time with no other GetTemplate under way returns the context's
\* error without a fetch when its context is done, the fetch's error when the
\* fetch fails, and otherwise a template of a later Fetcher call, which it has
\* stored.
C19_ExpiredRefetchedWhenAlone ==
    /\ ServedWithoutFetch
    /\ \A p \in Callers :
          FoundExpired(p) /\ rcall[p].alone =>
             /\ ~rcall[p].ret.fromCache
             /\ rcall[p].ret.err \in {"", "context.Canceled", "ErrFetchFailed",
                                      "ErrTemplateNotFound"}
             /\ rcall[p].ret.err = "" => rcall[p].ret.tpl > rcall[p].seen.tpl

\* A call issued past the expiry time, alone, has fetched and stored a newer
\* template while a call issued before the expiry was served from the cache.
C19_Witness ==
    /\ rttl > 0
    /\ FoundExpired("g2")
    /\ rcall["g2"].alone
    /\ rcall["g2"].ret.err = ""
    /\ rcall["g2"].ret.tpl = 2
    /\ rcache["k"] = cacheEntry(2, rclock + rttl)
    /\ FoundFresh("g1")
    /\ ServedFromCache("g1")

\* C20: a GetTemplate issued after an eviction has returned never returns a
\* template whose Fetcher call was made before that eviction.
C20_NothingFromBeforeEviction ==
    \A p \in Callers :
        Returned(p) /\ rcall[p].ret.err = "" =>
            fetchLog[rcall[p].ret.tpl] >= rcall[p].epoch

\* The render loop of p went on: to its next message, or out of the loop.
LoopMoved(p) == idx'[p] # idx[p] \/ pc'[p] # "render"

\* C22: the render loop looks at the context once before each message, in
\* message order: when the context is done at the check of message i the call
\* ends there with the context's error and nothing more is rendered; when it is
\* not, message i is elided, or rendered to its end and appended, or fails to
\* execute, and the loop goes on to message i + 1; the signal itself changes
\* nothing of the call, and one that comes after the last message's check
\* leaves the render successful.
C22_CheckBeforeEachMessage ==
    [][\A p \in Procs :
          pc[p] = "render" =>
              LET n == Len(tpl.parsedTemplates)
              IN /\ (LoopMoved(p) /\ idx[p] <= n /\ ctxDone[p])
                        => /\ pc'[p] = "done"
                           /\ ret'[p] = Return(NilExec, ErrCanceled)
                 /\ (LoopMoved(p) /\ idx[p] <= n /\ ~ctxDone[p])
                        => \/ /\ pc'[p] = "render"
                              /\ idx'[p] = idx[p] + 1
                              /\ \/ out'[p] = out[p]
                                 \/ /\ Len(out'[p]) = Len(out[p]) + 1
                                    /\ SubSeq(out'[p], 1, Len(out[p])) = out[p]
                                    /\ out'[p][Len(out'[p])].Role
                                           = tpl.parsedTemplates[idx[p]].role
                           \/ /\ pc'[p] = "done"
                              /\ ret'[p] = Return(NilExec, ErrTemplateRender)
                 /\ (LoopMoved(p) /\ idx[p] > n)
                        => pc'[p] = "done" /\ ret'[p].err = NoErr
                 /\ ctxDone'[p] # ctxDone[p]
                        => ~LoopMoved(p) /\ out'[p] = out[p]]_vars

\* The context was cancelled after the first of two messages was rendered and
\* before the check of the second: the call returned the context's error.
C22_Witness ==
    /\ pc[1] = "done"
    /\ cancelAt[1] = 2
    /\ Len(tpl.parsedTemplates) = 2
    /\ ~tpl.parsedTemplates[1].optional
    /\ ret[1] = Return(NilExec, ErrCanceled)

\* The context was cancelled after the check of the last message: the render
\* succeeded.
C22_LateSignal ==
    /\ Succeeded(1)
    /\ Len(tpl.parsedTemplates) = 2
    /\ cancelAt[1] = 3
    /\ Len(ret[1].exec.Messages) >= 2

\* seq without Tools, and seq with each name kept at its first occurrence only.
WithoutTools(seq) == SelectSeq(seq, LAMBDA name : name # "Tools")
RECURSIVE FirstOccurrences(_)
FirstOccurrences(seq) ==
    IF seq = <<>> THEN <<>>
    ELSE LET front == FirstOccurrences(SubSeq(seq, 1, Len(seq) - 1))
             last == seq[Len(seq)]
         IN IF \E j \in 1..(Len(seq) - 1) : seq[j] = last THEN front
            ELSE Append(front, last)
\* The names c's messages of the given kind refer to.
RefsOf(c, optional) ==
    UNION {Range(c.parsedTemplates[i].tpl.refs) :
              i \in {k \in DOMAIN c.parsedTemplates :
                         c.parsedTemplates[k].optional = optional}}
OnlyOptional(c) == RefsOf(c, TRUE) \ RefsOf(c, FALSE)

C23_ListedOnly ==
    /\ pc[1] = "done"
    /\ ret[1].err = VariableError("b", "tmpl")
    /\ "b" \in OnlyOptional(tpl)
    /\ "b" \in Range(tpl.RequiredVars)

\* The indices of the messages of parsed, from i on, that m does not elide.
RECURSIVE keptIndices(_, _, _)
keptIndices(m, parsed, i) ==
    IF i > Len(parsed) THEN <<>>
    ELSE (IF Elided(m, parsed[i]) THEN <<>> ELSE <<i>>) \o keptIndices(m, parsed, i + 1)

\* msg is what message pm of the template renders to: its role, one text part
\* that begins with its literal text, and a map of its own holding what the
\* template's metadata holds (none when the template has none).
RenderingOf(msg, pm, h) ==
    /\ msg.Role = pm.role
    /\ Len(msg.Content) = 1
    /\ msg.Content[1][1] = pm.tpl.lit
    /\ IF pm.metadata = NoAddr THEN msg.Metadata = NoAddr
       ELSE /\ msg.Metadata \notin {NoAddr, pm.metadata}
            /\ h[msg.Metadata] = h[pm.metadata]

\* C25: the Messages of a successful FormatStruct are the history and the
\* template messages that were not elided and nothing else: as many messages
\* as the two together, the template's in template order, one for each, each
\* with its template's role, one text part and its template's metadata, and
\* the history in one piece between two of them.
C25_HistoryPlusKept ==
    [][\A p \in Procs :
          (pc[p] = "render" /\ pc'[p] = "done" /\ ret'[p].err = NoErr) =>
              LET msgs == ret'[p].exec.Messages
                  kept == keptIndices(merged[p], tpl.parsedTemplates, 1)
                  hist == history[p]
              IN /\ Len(msgs) = Len(kept) + Len(hist)
                 /\ \E at \in 0..Len(kept) :
                       /\ SubSeq(msgs, at + 1, at + Len(hist)) = hist
                       /\ \A j \in 1..Len(kept) :
                             RenderingOf(msgs[IF j <= at THEN j ELSE j + Len(hist)],
                                         tpl.parsedTemplates[kept[j]], heap')]_vars

\* The second of two messages, an optional one, was elided: the output is the
\* first message with a map of its own for its metadata, followed by the two
\* messages of the history.
C25_Witness ==
    /\ Succeeded(1)
    /\ Len(tpl.parsedTemplates) = 2
    /\ tpl.parsedTemplates[1].metadata # NoAddr
    /\ tpl.parsedTemplates[2].optional
    /\ Len(ret[1].exec.Messages) = 3
    /\ ret[1].exec.Messages[1].Metadata = <<1, "meta", 1>>
    /\ historyPart(ret[1].exec.Messages) = SubSeq(ret[1].exec.Messages, 2, 3)

\* Message pm is optional and its body refers to no variable, or to .Tools only.
RefersToNothing(pm) == pm.optional /\ Range(pm.tpl.refs) \subseteq {"Tools"}

\* C26: an optional message whose body refers to no variable, or to .Tools
\* only, has no dependent variable and is skipped in every render, whatever
\* the payload, the defaults and the tool list hold: no message rendered so
\* far and no message of a PromptExecution comes from it.
C26_NeverRendered ==
    \A p \in Procs :
        \A i \in DOMAIN tpl.parsedTemplates :
            RefersToNothing(tpl.parsedTemplates[i])
                => /\ tpl.parsedTemplates[i].vars = <<>>
                   /\ \A j \in DOMAIN out[p] :
                         out[p][j].Content[1][1] # tpl.parsedTemplates[i].tpl.lit
                   /\ \A j \in DOMAIN ret[p].exec.Messages :
                         ret[p].exec.Messages[j].Content[1][1] # tpl.parsedTemplates[i].tpl.lit

\* A template of two such messages, one without references and one over
\* .Tools, with a default for Tools, rendered with a payload whose a and b
\* are set: the PromptExecution has no message.
C26_Witness ==
    /\ Succeeded(1)
    /\ Len(tpl.parsedTemplates) = 2
    /\ tpl.parsedTemplates[1].tpl = Body("note", <<>>)
    /\ tpl.parsedTemplates[2].tpl = Body("bare", <<"Tools", "Tools">>)
    /\ "Tools" \in DOMAIN tpl.PartialVariables
    /\ payload[1].typ = "PAB"
    /\ payload[1].vals = <<Str("x"), Str("y")>>
    /\ merged[1]["Tools"] = ToolsV(TplTools)
    /\ ret[1].exec.Messages = <<>>

\* The payload makes getPayloadFields fail: it has no usable shape, or an
\* exported field of it is tagged Tools.
ShapeFails(pl) ==
    \/ InvalidShape(pl)
    \/ \E j \in DOMAIN TypeFields(pl.typ) :
          TypeFields(pl.typ)[j].tag = "Tools" /\ TypeFields(pl.typ)[j].exported
\* The names a payload supplies, none when it is not a struct.
PayloadNames(pl) == IF pl.base = "struct" THEN Supplied(pl) ELSE {}
\* The required names that neither the defaults nor the payload supply.
AbsentRequired(c, pl) ==
    Range(RequiredInOrder(c)) \ (DOMAIN c.PartialVariables \cup PayloadNames(pl) \cup {"Tools"})
\* The defaults overridden by the payload's values, and the tool list.
MergedOf(c, pl) ==
    [name \in MergedNames(c, pl) |->
        IF name = "Tools" THEN ToolsV(c.Tools)
        ELSE IF name \in Supplied(pl) THEN SuppliedValue(pl, name)
             ELSE c.PartialVariables[name]]
\* The messages of c whose execution against m fails: those not elided that
\* refer to a name m lacks or to a value that cannot be printed.
FailingAt(c, m) ==
    {i \in DOMAIN c.parsedTemplates :
        /\ ~Elided(m, c.parsedTemplates[i])
        /\ \E name \in Range(c.parsedTemplates[i].tpl.refs) :
              name \notin DOMAIN m \/ m[name].k = "func"}

\* C27: of the failure conditions that hold for a call, FormatStruct reports
\* the first in this order: the payload's shape (ErrInvalidPayload or
\* ErrReservedVariable), a missing required variable, and then, message by
\* message, the cancellation seen at the check of message i before any
\* execution error of message i or of a later one; a call with a context
\* already cancelled and a required variable missing returns the
\* missing-variable error.
C27_ErrorPrecedence ==
    \A p \in Procs :
        pc[p] = "done" =>
            LET pl == payload[p]
                n == Len(tpl.parsedTemplates)
                cAt == cancelAt[p]
                failing == FailingAt(tpl, MergedOf(tpl, pl))
            IN IF ShapeFails(pl)
               THEN ret[p].err.kind \in {"ErrInvalidPayload", "ErrReservedVariable"}
               ELSE IF AbsentRequired(tpl, pl) # {}
                    THEN ret[p].err.kind = "ErrMissingVariable"
                    ELSE /\ (cAt \in 1..n /\ \A j \in failing : cAt <= j)
                                => ret[p].err = ErrCanceled
                         /\ (\E j \in failing : cAt = NotCancelled \/ j < cAt)
                                => ret[p].err = ErrTemplateRender
                         /\ (failing = {} /\ cAt \notin 1..n) => ret[p].err = NoErr

\* The context was cancelled before the call and b, which is required, is
\* missing: the call returns the missing-variable error.
C27_Witness ==
    /\ pc[1] = "done"
    /\ cancelAt[1] = 1
    /\ ~ShapeFails(payload[1])
    /\ "b" \in AbsentRequired(tpl, payload[1])
    /\ Len(tpl.parsedTemplates) >= 1
    /\ ret[1] = Return(NilExec, VariableError("b", "tmpl"))

\* The context was cancelled before the check of a message that cannot be
\* executed: the call returns the cancellation.
C27_CancelBeforeFailure ==
    /\ pc[1] = "done"
    /\ cancelAt[1] = 2
    /\ FailingAt(tpl, MergedOf(tpl, payload[1])) = {2}
    /\ ret[1] = Return(NilExec, ErrCanceled)

\* The payload has a field tagged Tools, a required variable is missing and
\* the context is cancelled: the call returns ErrReservedVariable.
C27_AllThree ==
    /\ pc[1] = "done"
    /\ cancelAt[1] = 1
    /\ payload[1].typ = "PTools"
    /\ AbsentRequired(tpl, payload[1]) # {}
    /\ ret[1] = Return(NilExec, ErrReservedVariable)

\* The optional messages of c that m does not elide although m lacks one of
\* the names they refer to.
HalfSupplied(c, m) ==
    {i \in DOMAIN c.parsedTemplates :
        /\ c.parsedTemplates[i].optional
        /\ ~Elided(m, c.parsedTemplates[i])
        /\ \E name \in Range(c.parsedTemplates[i].tpl.refs) : name \notin DOMAIN m}

CacheFree(pl) ==
    IF payloadUnusable(pl) \/ Len(schemaFieldsOf(pl.typ)) = 0
    THEN [vars |-> EmptyMap, history |-> NoHist, err |-> ErrInvalidPayload]
    ELSE extractFields(schemaFieldsOf(pl.typ), pl)
\* Schema sp is in payloadCache, or a caller reads the payload's fields with it.
InUse(sp) ==
    \/ \E t \in TypeNames : payloadCache[t] = sp
    \/ \E q \in Procs : pc[q] = "extract" /\ schema[q] = sp

\* C29: whatever calls came before or run at the same time, on the same type
\* or on others, getPayloadFields returns the variables, the history and the
\* error that an extraction without payloadCache returns for the payload; a
\* type none of whose fields has a usable tag is never in payloadCache; and a
\* schema is not written to once it is stored: no call is building a schema
\* that is in the cache or that a call reads with, and it holds the field list
\* of its type at all times.
C29_CacheTransparent ==
    /\ \A p \in Procs :
          /\ pc[p] = "extract"
                => extractFields(schemaObj[schema[p]], payload[p]) = CacheFree(payload[p])
          /\ pc[p] = "render"
                => /\ CacheFree(payload[p]).err = NoErr
                   /\ merged[p] = mergeVariables(tpl, CacheFree(payload[p]).vars)
                   /\ history[p] = CacheFree(payload[p]).history
          /\ (pc[p] = "done" /\ CacheFree(payload[p]).err # NoErr)
                => ret[p] = Return(NilExec, CacheFree(payload[p]).err)
          /\ (pc[p] = "done" /\ ret[p].err.kind \in {"ErrInvalidPayload",
                                                      "ErrReservedVariable"})
                => ret[p].err = CacheFree(payload[p]).err
    /\ \A t \in TypeNames :
          payloadCache[t] # NoSchema
              => \E j \in DOMAIN TypeFields(t) : UsableTag(TypeFields(t)[j].tag)
    /\ \A sp \in SchemaPtrs :
          InUse(sp) => /\ ~BeingBuilt(sp)
                       /\ schemaObj[sp] = schemaFieldsOf(sp[2])

\* Caller 1 reads a payload of type PAB with the schema caller 2 stored, while
\* caller 2, whose call on the type without usable tags has failed, left
\* nothing in the cache for that type.
C29_Witness ==
    /\ pc[1] = "extract"
    /\ payload[1].typ = "PAB"
    /\ schema[1] = SchemaPtr(2, "PAB")
    /\ payloadCache["PAB"] = SchemaPtr(2, "PAB")
    /\ pc[2] = "done"
    /\ payload[2].typ = "PNoTags"
    /\ ret[2] = Return(NilExec, ErrInvalidPayload)
    /\ payloadCache["PNoTags"] = NoSchema

\* The search keeps 0 <= lo <= hi <= the number of code points of text, and
\* every iteration makes the interval smaller without moving it outwards.
SearchInBounds == tpc = "search" => (0 <= lo /\ lo <= hi /\ hi <= RuneCountInString(text))
SearchShrinks ==
    (tpc = "search" /\ tpc' = "search" /\ <<lo, hi, asked>>' # <<lo, hi, asked>>)
        => /\ hi' - lo' < hi - lo
           /\ lo <= lo'
           /\ hi' <= hi
SearchEnds == (tpc = "search") ~> (tpc = "returned")

\* C30 as stated: for every text and every counter, monotonic or not, the
\* binary search terminates, its interval shrinking on every iteration within
\* 0 <= lo <= hi <= codePointCount(text), and what is returned is a prefix of
\* text.
C30_SearchReturnsPrefix ==
    /\ []SearchInBounds
    /\ [][SearchShrinks]_vars
    /\ SearchEnds
    /\ [](tpc \in {"returned", "done"} => IsPrefixOf(tret.text, text))

\* C30, amended: the same, what is returned being a prefix of text when text
\* is valid UTF-8 and otherwise the first code points of text with U+FFFD in
\* the place of each undecodable byte.
C30_SearchReturnsRunePrefix ==
    /\ []SearchInBounds
    /\ [][SearchShrinks]_vars
    /\ SearchEnds
    /\ [](tpc \in {"returned", "done"}
            => /\ IsRunePrefixOf(tret.text, text)
               /\ ValidUTF8(text) => IsPrefixOf(tret.text, text))

\* A search over three code points with a counter that is not monotonic (the
\* prefix of two fits, that of one does not, that of three does not) has
\* ended after two iterations and returned the prefix of two.
C30_Witness ==
    /\ tpc = "returned"
    /\ Len(text) = 3
    /\ ~Monotonic(tc.cnt)
    /\ asked = {3, 2}
    /\ lo = 2 /\ hi = 2
    /\ tret = FuncResult(SubSeq(text, 1, 2), NoErr)

\* Caller q is in the call of sf.Do for key k: it runs the function, or waits
\* for the caller that does.
InFlight(q, k) == rcall[q].name = k /\ rcall[q].pc \in {"sfwait", "fetching"}
\* The Fetcher call whose result caller p waits for or holds, 0 when none.
FetchOf(p) ==
    CASE rcall[p].pc = "store" -> rcall[p].got
      [] rcall[p].pc \in {"sfwait", "fetching"} -> rsf[rcall[p].name].fetch
      [] OTHER -> 0
\* Calls that are past their cache miss together rely on one Fetcher call.
OneFetchForAll ==
    \A p, q \in Callers :
        (FetchOf(p) # 0 /\ FetchOf(q) # 0) => FetchOf(p) = FetchOf(q)
\* A caller waits only for a call in flight, and a call that returned a
\* context's error returned the error of its own context.
OwnContextOnly ==
    \A q \in Callers :
        /\ rcall[q].pc = "sfwait" => rsf[rcall[q].name].running
        /\ (rcall[q].pc = "done" /\ rcall[q].ret.err = "context.Canceled")
              => rctx[q].cancelled
\* A Fetcher call is started only when none is in flight for the key; when it
\* ends, the caller that started it and every caller that waited for it take
\* its outcome, the same template or the same error; the error is no
\* cancellation, and the deadline's only when the deadline of the starting
\* caller's context has passed.
FlightShared ==
    \A k \in Keys :
        /\ (rsf'[k].running /\ rsf'[k] # rsf[k]) => ~rsf[k].running
        /\ (rsf[k].running /\ ~rsf'[k].running) =>
              \E s \in Callers :
                  /\ rcall[s].pc = "fetching" /\ rcall[s].name = k
                  /\ \/ \A q \in Callers :
                           InFlight(q, k) => /\ rcall'[q].pc = "store"
                                             /\ rcall'[q].got = rsf[k].fetch
                     \/ /\ rcall'[s].ret.err \notin {"", "context.Canceled"}
                        /\ rcall'[s].ret.err = "context.DeadlineExceeded"
                              => rctx[s].deadline = "passed"
                        /\ \A q \in Callers :
                              InFlight(q, k) => /\ rcall'[q].pc = "done"
                                                /\ rcall'[q].ret = rcall'[s].ret

\* C24 as stated: GetTemplate calls for a key that miss the cache at the same
\* time share one fetch; cancelling the context of one of them, the starting
\* caller's included, while the fetch is in flight does not make the others
\* fail; only a deadline of the starting caller's context bounds the fetch.
C24_MissesShareOneFetch ==
    /\ []OneFetchForAll
    /\ []OwnContextOnly
    /\ [][FlightShared]_vars

\* C24, amended: the calls that reach sf.Do while a fetch for the key is in
\* flight share that fetch (one that gets there after it has ended starts
\* another); the rest as stated.
C24_FlightShared ==
    /\ []OwnContextOnly
    /\ [][FlightShared]_vars

\* The context of g1 has been cancelled, and g1 and g2 hold the template of
\* the one fetch that was made.
C24_Witness ==
    /\ rcall["g1"].pc = "store"
    /\ rcall["g2"].pc = "store"
    /\ rcall["g1"].got = 1
    /\ rcall["g2"].got = 1
    /\ Len(fetchLog) = 1
    /\ rctx["g1"] = Context(TRUE, "none")
    /\ rctx["g2"] = Background

\* The fetch that g1 started is in flight, g2 waits for it, and g1's context
\* is cancelled.
C24_CancelledInFlight ==
    /\ rcall["g1"].pc = "fetching"
    /\ rcall["g2"].pc = "sfwait"
    /\ rctx["g1"].cancelled

\* Template t, with the slices and maps it refers to in h, holds what the
\* template that was loaded held.
EqualsLoaded(t, h) ==
    /\ t.Messages = MessagesOf(tpl)
    /\ t.RequiredVars = tpl.RequiredVars
    /\ t.PartialVariables = tpl.PartialVariables
    /\ t.Metadata.ID = tpl.Metadata.ID
    /\ objText(h, t.Tools) = objText(InitHeap, tpl.Tools)
    /\ objText(h, t.ModelConfig) = objText(InitHeap, tpl.ModelConfig)
    /\ objText(h, t.Metadata.Tags) = objText(InitHeap, tpl.Metadata.Tags)
    /\ objText(h, t.ResponseFormat.Schema) = objText(InitHeap, tpl.ResponseFormat.Schema)

\* C21: whatever the holders of earlier clones did to them, the template a
\* GetTemplate returns for the key is equal to the one that was loaded.
C21_LaterClonesEqual ==
    [][\A p \in Procs :
          (held[p] = NoClone /\ held'[p] # NoClone) => EqualsLoaded(held'[p], heap')]_vars

\* What does hold: the cached template's own slices and maps, one level deep,
\* are never written to.
C21_TopLevelUntouched ==
    \A a \in {TplTools, TplConfig, TplTags, TplSchema} : heap[a] = InitHeap[a]
====
